---- MODULE Spec2Model ----
(***************************************************************************)
(* Model of gazelle's directory walker: the single-flight directory cache  *)
(* (cache.get / cache.getLoaded), the directory loader (loadDirInfo), the   *)
(* per-directory walk configuration (Configurer.Configure), the parallel    *)
(* prefetcher (populateCache) and the serial walk driver (Walk / visit).    *)
(*                                                                         *)
(* Paths are sequences of path segments: "" is <<>>, "a/b" is <<"a","b">>. *)
(***************************************************************************)
EXTENDS Integers, Sequences, FiniteSets, TLC

VARIABLES
    fs,             \* the directory tree on disk (never written by the walk)
    rels,           \* requested directories, relative to the repo root
    mode,           \* Mode given to Walk
    variant,        \* which populateCache the walker was built with
    entryMap,       \* cache.entryMap: key -> cacheEntry
    tasks,          \* goroutines: main and the prefetch workers
    sem,            \* number of tokens in populateCache's sem channel
    wg,             \* populateCache's WaitGroup counter
    phase,          \* where the main goroutine is in Walk
    todo,           \* directory prefixes main still has to load serially
    stack,          \* call stack of walker.visit
    configureRels,  \* rels passed to the configure hook, in call order
    callbackRels,   \* calls of the WalkFunc, in call order
    loadCount,      \* history: number of loader invocations per key
    loaded,         \* history: what each loader invocation returned
    getReturns,     \* history: what cache.get calls returned
    closeCount,     \* history: number of close(doneC) per key
    panicked,       \* a goroutine hit getLoaded's panic
    heap,           \* backing arrays of the slices
    walkConfigs,    \* rel -> the *walkConfig the Configurer published for it
    built,          \* history: each walkConfig as it was when published
    fatal,          \* log.Fatalf was called: the process has exited
    fatalAt,        \* history: where log.Fatalf was called
    previous,       \* history: the calls made by the runs of Walk that are over
    bazelIgnore,    \* the lines of .bazelignore at the repo root (none: no file)
    dirInfo,        \* the DirInfo one call of loadDirInfo builds and returns
    readers         \* the slices the callers of cache.get hold of that DirInfo

\* The state of the walk, and the state of the Configurer on its own.
walkVars == <<fs, rels, mode, variant, entryMap, tasks, sem, wg, phase, todo,
              stack, configureRels, callbackRels, loadCount, loaded, getReturns,
              closeCount, panicked>>

cfgVars == <<heap, walkConfigs, built, fatal, fatalAt>>

vars == <<walkVars, cfgVars, previous, bazelIgnore, dirInfo, readers>>

---------------------------------------------------------------------------
(* Bounds *)

\* Largest number of directories passed to Walk.
MaxRels == 2

\* Capacity of the semaphore channel in populateCache.
SemCap == 6

---------------------------------------------------------------------------
(* Paths *)

Root == <<>>

\* path.Join(rel, name) for a clean rel and a plain entry name.
Join(rel, name) == Append(rel, name)

\* path.Dir(rel), with "." turned into "" as loadDirInfo does.
Dir(rel) == SubSeq(rel, 1, Len(rel) - 1)

RECURSIVE Clean(_)
\* path.Clean on the segments of a relative path: "." segments vanish and
\* "x/.." collapses.
Clean(p) ==
    IF p = <<>> THEN <<>>
    ELSE LET init == Clean(SubSeq(p, 1, Len(p) - 1))
             last == p[Len(p)]
         IN  IF last = "." THEN init
             ELSE IF last = ".." /\ init # <<>> /\ init[Len(init)] # ".."
                  THEN SubSeq(init, 1, Len(init) - 1)
                  ELSE Append(init, last)

\* path.Clean on a path that may hold empty segments ("dir3/", "a//b"):
\* the cleaned path, "." when nothing is left.
CleanPath(p) ==
    LET c == Clean(SelectSeq(p, LAMBDA x : x # "")) IN
    IF c = <<>> THEN <<".">> ELSE c

\* path.Join(rel, d.Value) for a directive value: empty elements are
\* dropped and the rest is cleaned, so "" joined with "." is ".".
JoinValue(rel, value) == IF rel \o value = <<>> THEN <<>> ELSE CleanPath(rel \o value)

IsPrefix(p, q) == Len(p) <= Len(q) /\ SubSeq(q, 1, Len(p)) = p

---------------------------------------------------------------------------
(* The directory tree *)

Modes == {"VisitAllUpdateSubdirs", "VisitAllUpdateDirs", "UpdateDirs", "UpdateSubdirs"}

\* The directories of the repository, parents before children.
UniverseSeq == << <<>>, <<"a">>, <<"a", "b">>, <<"a", "b", "c">>, <<"d">> >>

Universe == { UniverseSeq[i] : i \in 1..Len(UniverseSeq) }

\* Names of the subdirectories on disk, in os.ReadDir (sorted) order.
ChildNames(d) ==
    IF d = <<>> THEN <<"a", "d">>
    ELSE IF d = <<"a">> THEN <<"b">>
    ELSE IF d = <<"a", "b">> THEN <<"c">>
    ELSE <<>>

NoFile == [kind |-> "nil", directives |-> <<>>]

Directive(k, v) == [key |-> k, value |-> v]

\* What a directory holds besides its subdirectories, by attribute.
BuildOf(attr) ==
    CASE attr = "build"       -> [kind |-> "file", directives |-> <<>>]
      [] attr = "ignore"      -> [kind |-> "file", directives |-> <<Directive("ignore", <<>>)>>]
      [] attr = "bad"         -> [kind |-> "bad", directives |-> <<>>]
      [] attr = "exclude"     -> [kind |-> "file", directives |-> <<Directive("exclude", <<"**", "b">>)>>]
      [] attr = "excludeSelf" -> [kind |-> "file", directives |-> <<Directive("exclude", <<".">>)>>]
      [] attr = "updateOnly"  -> [kind |-> "file", directives |-> <<Directive("generation_mode", <<"update_only">>)>>]
      [] attr = "rich"        -> [kind |-> "file", directives |-> <<Directive("ignore", <<>>),
                                                                    Directive("generation_mode", <<"update_only">>),
                                                                    Directive("exclude", <<"**", "x.go">>)>>]
      [] OTHER                -> NoFile

Entry(n, isDir) == [name |-> n, isDir |-> isDir]

RECURSIVE DirEntries(_)
DirEntries(names) ==
    IF names = <<>> THEN <<>> ELSE <<Entry(Head(names), TRUE)>> \o DirEntries(Tail(names))

\* os.ReadDir order: "BUILD.bazel" < subdirectory names < "x.go".
EntriesOf(d, attr) ==
    (IF BuildOf(attr).kind = "nil" THEN <<>> ELSE <<Entry("BUILD.bazel", FALSE)>>)
    \o DirEntries(ChildNames(d)) \o <<Entry("x.go", FALSE)>>

AttrOf(sp, d) ==
    IF \E x \in sp : x[1] = d THEN (CHOOSE x \in sp : x[1] = d)[2] ELSE "plain"

MkFS(sp) ==
    [d \in Universe |->
        [readErr |-> AttrOf(sp, d) = "unreadable",
         build   |-> BuildOf(AttrOf(sp, d)),
         entries |-> EntriesOf(d, AttrOf(sp, d))]]

\* The trees the walk is run on: one special directory, or two as in the
\* trees of TestUpdateDirs and TestGenMode.
Specials ==
    {{}}
    \cup { {<<<<"a">>, attr>>} : attr \in {"ignore", "bad", "updateOnly", "unreadable",
                                           "excludeSelf", "exclude"} }
    \cup { {<<<<"a", "b">>, attr>>} : attr \in {"ignore", "bad"} }
    \cup { {<<Root, "build">>},
           {<<<<"a">>, "ignore">>, <<<<"d">>, "bad">>},
           {<<<<"a">>, "updateOnly">>, <<<<"a", "b">>, "build">>} }

FileSystems == { MkFS(sp) : sp \in Specials }

\* The requested directories: between 1 and MaxRels distinct directories.
RECURSIVE Pick(_, _)
Pick(s, I) ==
    IF s = <<>> THEN <<>>
    ELSE (IF Len(s) \in I THEN Pick(SubSeq(s, 1, Len(s) - 1), I) \o <<s[Len(s)]>>
          ELSE Pick(SubSeq(s, 1, Len(s) - 1), I))

RelsChoices ==
    { Pick(UniverseSeq, I) : I \in { J \in SUBSET (1..Len(UniverseSeq)) :
                                       Cardinality(J) >= 1 /\ Cardinality(J) <= MaxRels } }

---------------------------------------------------------------------------
(* Walk configuration (walk/config.go) *)

\* doublestar.MatchUnvalidated on path segments: "**" spans any number of
\* segments, "*" stands for one segment, anything else matches itself.
RECURSIVE Match(_, _)
Match(pat, p) ==
    IF pat = <<>> THEN p = <<>>
    ELSE IF Head(pat) = "**"
         THEN Match(Tail(pat), p) \/ (p # <<>> /\ Match(pat, Tail(p)))
         ELSE /\ p # <<>>
              /\ (Head(pat) = "*" \/ Head(pat) = Head(p))
              /\ Match(Tail(pat), Tail(p))

matchAnyGlob(patterns, p) == \E i \in 1..Len(patterns) : Match(patterns[i], p)

\* A check that accepts every pattern.
checkPathAlwaysOk(pattern) == TRUE

\* checkPathMatchPattern: a pattern with an unclosed "[" is malformed.
checkPathMatchPattern(pattern) == \A i \in 1..Len(pattern) : pattern[i] # "["

RECURSIVE TrimLeft(_)
TrimLeft(v) == IF v # <<>> /\ Head(v) = " " THEN TrimLeft(Tail(v)) ELSE v

RECURSIVE TrimRight(_)
TrimRight(v) ==
    IF v # <<>> /\ v[Len(v)] = " " THEN TrimRight(SubSeq(v, 1, Len(v) - 1)) ELSE v

\* strings.TrimSpace on a value given as a sequence of tokens, " " being
\* white space.
TrimSpace(v) == TrimRight(TrimLeft(v))

\* The walkConfig registered by RegisterFlags: no -exclude flag given.
RootWalkConfig == [updateOnly |-> FALSE, excludes |-> <<>>, ignore |-> FALSE, follow |-> <<>>]

isExcluded(wc, p) == matchAnyGlob(wc.excludes, p)

\* strings.ContainsAny(ignore, "*?["): the line holds a glob character.
ContainsGlob(line) == \E i \in 1..Len(line) : line[i] \in {"*", "**", "?", "["}

RECURSIVE loadBazelIgnoreNoClean(_)
\* The loop of loadBazelIgnore that stores the lines as they are written.
loadBazelIgnoreNoClean(lines) ==
    IF lines = <<>> THEN {}
    ELSE LET ignore == TrimSpace(Head(lines)) IN
         IF ignore = <<>> \/ ignore[1] = "#" \/ ContainsGlob(ignore)
         THEN loadBazelIgnoreNoClean(Tail(lines))
         ELSE {ignore} \cup loadBazelIgnoreNoClean(Tail(lines))

RECURSIVE loadBazelIgnore(_)
\* loadBazelIgnore: the set excludes built from the lines of .bazelignore.
\* A line is a sequence of path segments; " " is white space, a first
\* segment "#" starts a comment.
loadBazelIgnore(lines) ==
    IF lines = <<>> THEN {}
    ELSE LET ignore == TrimSpace(Head(lines)) IN
         IF ignore = <<>> \/ ignore[1] = "#" \/ ContainsGlob(ignore)
         THEN loadBazelIgnore(Tail(lines))
         ELSE {CleanPath(ignore)} \cup loadBazelIgnore(Tail(lines))

\* isBazelIgnored: exact membership in the set.
isBazelIgnored(p) == p \in loadBazelIgnore(bazelIgnore)

isExcludedDir(wc, p) == isExcluded(wc, p) \/ isBazelIgnored(p)

isExcludedFile(wc, p) == isExcluded(wc, p) \/ isBazelIgnored(p)

\* Configure without the case for the ignore directive.
ApplyDirectiveNoIgnore(wc, rel, d) ==
    CASE d.key = "generation_mode" ->
            IF TrimSpace(d.value) = <<"update_only">> THEN [wc EXCEPT !.updateOnly = TRUE]
            ELSE IF TrimSpace(d.value) = <<"create_and_update">>
                 THEN [wc EXCEPT !.updateOnly = FALSE]
            ELSE wc
      [] d.key = "exclude" ->
            IF checkPathMatchPattern(JoinValue(rel, d.value))
            THEN [wc EXCEPT !.excludes = Append(@, JoinValue(rel, d.value))]
            ELSE wc
      [] d.key = "follow" ->
            IF checkPathMatchPattern(JoinValue(rel, d.value))
            THEN [wc EXCEPT !.follow = Append(@, JoinValue(rel, d.value))]
            ELSE wc
      [] OTHER -> wc

\* One iteration of the loop over f.Directives in Configure.
ApplyDirective(wc, rel, d) ==
    CASE d.key = "generation_mode" ->
            IF TrimSpace(d.value) = <<"update_only">> THEN [wc EXCEPT !.updateOnly = TRUE]
            ELSE IF TrimSpace(d.value) = <<"create_and_update">>
                 THEN [wc EXCEPT !.updateOnly = FALSE]
            ELSE wc
      [] d.key = "exclude" ->
            IF checkPathMatchPattern(JoinValue(rel, d.value))
            THEN [wc EXCEPT !.excludes = Append(@, JoinValue(rel, d.value))]
            ELSE wc
      [] d.key = "follow" ->
            IF checkPathMatchPattern(JoinValue(rel, d.value))
            THEN [wc EXCEPT !.follow = Append(@, JoinValue(rel, d.value))]
            ELSE wc
      [] d.key = "ignore" -> [wc EXCEPT !.ignore = TRUE]
      [] OTHER -> wc

RECURSIVE ApplyDirectives(_, _, _)
ApplyDirectives(wc, rel, ds) ==
    IF ds = <<>> THEN wc
    ELSE ApplyDirectives(ApplyDirective(wc, rel, Head(ds)), rel, Tail(ds))

\* Configure without the reset of ignore: the parent's flag is inherited.
configureInheritIgnore(parentConfig, rel, f) ==
    ApplyDirectives(parentConfig, rel, IF f.kind = "nil" THEN <<>> ELSE f.directives)

\* Configure: copy the parent's walkConfig, reset ignore, apply the
\* directives of the directory's build file.
configureForWalk(parentConfig, rel, f) ==
    ApplyDirectives([parentConfig EXCEPT !.ignore = FALSE], rel,
                    IF f.kind = "nil" THEN <<>> ELSE f.directives)

---------------------------------------------------------------------------
(* The Configurer on Go slices (Configurer.Configure) *)

\* Largest number of directories the Configurer is run on.
MaxConfigure == 3

\* A nil slice; a slice is a backing array (0: none) and a length, its
\* capacity is the length of the backing array.
NilSlice == [arr |-> 0, len |-> 0]

Cap(h, sl) == IF sl.arr = 0 THEN 0 ELSE Len(h[sl.arr])

\* The elements of a slice.
SliceValue(h, sl) == IF sl.arr = 0 THEN <<>> ELSE SubSeq(h[sl.arr], 1, sl.len)

\* Capacity of the array append allocates for a slice of n elements that
\* is full: the runtime doubles small slices.
GrowCap(n) == IF n = 0 THEN 1 ELSE 2 * n

\* The zero elements of a freshly allocated array.
ZeroArray == << <<>>, <<>>, <<>>, <<>>, <<>>, <<>>, <<>>, <<>> >>

\* A slice assigned the one new element, in its own array.
GoAssign(h, sl, x) ==
    [heap |-> Append(h, <<x>>), slice |-> [arr |-> Len(h) + 1, len |-> 1]]

\* append(sl, x): written in place when the capacity allows, else into a
\* new array that holds a copy of the elements.
GoAppend(h, sl, x) ==
    IF sl.len < Cap(h, sl)
    THEN [heap  |-> [h EXCEPT ![sl.arr] = SubSeq(@, 1, sl.len) \o <<x>>
                                           \o SubSeq(@, sl.len + 2, Len(@))],
          slice |-> [sl EXCEPT !.len = @ + 1]]
    ELSE LET n == GrowCap(sl.len) IN
         [heap  |-> Append(h, SliceValue(h, sl) \o <<x>>
                              \o SubSeq(ZeroArray, 1, n - sl.len - 1)),
          slice |-> [arr |-> Len(h) + 1, len |-> sl.len + 1]]

\* wc := &walkConfig{} of RegisterFlags, with no -exclude flag given.
EmptyWalkConfig ==
    [updateOnly |-> FALSE, excludes |-> NilSlice, ignore |-> FALSE, follow |-> NilSlice]

\* A walkConfig as the values its fields hold at the moment.
ConfigValue(h, wc) ==
    [updateOnly |-> wc.updateOnly, excludes |-> SliceValue(h, wc.excludes),
     ignore |-> wc.ignore, follow |-> SliceValue(h, wc.follow)]

\* The copy keeps the parent's ignore flag.
CopyKeepIgnore(wc) == wc

\* *wcCopy = *wc; wcCopy.ignore = false: the slice headers are copied, the
\* backing arrays are shared.
CopyWalkConfig(wc) == [wc EXCEPT !.ignore = FALSE]

\* An unknown generation_mode that is logged and skipped.
UnknownModeSkipped(st) == [st EXCEPT !.log = Append(@, "generation_mode")]

\* log.Fatalf("unknown generation_mode ..."): the process exits.
UnknownModeFatal(st) == [st EXCEPT !.log = Append(@, "fatal"), !.fatal = TRUE]

\* One iteration of the loop over f.Directives, on the state of the call:
\* the heap, wcCopy, the messages logged and whether log.Fatalf was called.
ConfigureDirective(st, rel, d) ==
    CASE d.key = "generation_mode" ->
            IF TrimSpace(d.value) = <<"update_only">>
            THEN [st EXCEPT !.wc.updateOnly = TRUE]
            ELSE IF TrimSpace(d.value) = <<"create_and_update">>
                 THEN [st EXCEPT !.wc.updateOnly = FALSE]
            ELSE UnknownModeFatal(st)
      [] d.key = "exclude" ->
            IF ~checkPathMatchPattern(JoinValue(rel, d.value))
            THEN [st EXCEPT !.log = Append(@, "exclude")]
            ELSE LET r == GoAppend(st.heap, st.wc.excludes, JoinValue(rel, d.value))
                 IN  [st EXCEPT !.heap = r.heap, !.wc.excludes = r.slice]
      [] d.key = "follow" ->
            IF ~checkPathMatchPattern(JoinValue(rel, d.value))
            THEN [st EXCEPT !.log = Append(@, "follow")]
            ELSE LET r == GoAppend(st.heap, st.wc.follow, JoinValue(rel, d.value))
                 IN  [st EXCEPT !.heap = r.heap, !.wc.follow = r.slice]
      [] d.key = "ignore" ->
            [st EXCEPT !.log = IF d.value # <<>> THEN Append(@, "ignore") ELSE @,
                       !.wc.ignore = TRUE]
      [] OTHER -> st

RECURSIVE ConfigureLoopReversed(_, _, _)
\* A loop over f.Directives from the last directive to the first.
ConfigureLoopReversed(st, rel, ds) ==
    IF ds = <<>> \/ st.fatal THEN st
    ELSE ConfigureLoopReversed(ConfigureDirective(st, rel, ds[Len(ds)]), rel,
                               SubSeq(ds, 1, Len(ds) - 1))

RECURSIVE ConfigureLoop(_, _, _)
\* for _, d := range f.Directives, cut short by log.Fatalf.
ConfigureLoop(st, rel, ds) ==
    IF ds = <<>> \/ st.fatal THEN st
    ELSE ConfigureLoop(ConfigureDirective(st, rel, Head(ds)), rel, Tail(ds))

\* The walkConfig of the directory the Configurer copies from.
ParentWalkConfig(rel) == IF rel = Root THEN EmptyWalkConfig ELSE walkConfigs[Dir(rel)]

\* The state of a call of Configure when it returns or exits.
ConfigureCall(rel, f) ==
    ConfigureLoop([heap |-> heap, wc |-> CopyWalkConfig(ParentWalkConfig(rel)),
                   log |-> <<>>, fatal |-> FALSE],
                  rel, IF f.kind = "nil" THEN <<>> ELSE f.directives)

\* The build files the Configurer is run on.
ConfigureFiles ==
    { NoFile } \cup
    { [kind |-> "file", directives |-> ds] : ds \in {
        << Directive("exclude", <<"p">>), Directive("exclude", <<"q">>),
           Directive("exclude", <<"r">>) >>,
        << Directive("exclude", <<"x">>) >>,
        << Directive("exclude", <<"[">>), Directive("follow", <<"y">>) >>,
        << Directive("follow", <<"[">>), Directive("ignore", <<"x">>),
           Directive("exclude", <<"x">>) >>,
        << Directive("ignore", <<>>) >>,
        << Directive("generation_mode", <<" ", "update_only", " ">>) >>,
        << Directive("generation_mode", <<"create_and_update">>) >>,
        << Directive("exclude", <<"x">>), Directive("generation_mode", <<"bogus">>),
           Directive("ignore", <<>>) >>,
        << Directive("generation_mode", <<"update_only">>), Directive("exclude", <<"s">>),
           Directive("generation_mode", <<"create_and_update">>) >>,
        << Directive("generation_mode", <<"create_and_update">>), Directive("follow", <<"y">>),
           Directive("exclude", <<"t">>), Directive("follow", <<"z">>),
           Directive("exclude", <<"s">>), Directive("generation_mode", <<"update_only">>) >> } }

\* The Configurer may be run on rel: its parent is configured, it is not.
CanConfigure(rel) ==
    /\ ~fatal
    /\ rel \notin DOMAIN walkConfigs
    /\ rel = Root \/ Dir(rel) \in DOMAIN walkConfigs
    /\ Cardinality(DOMAIN walkConfigs) < MaxConfigure

\* Configure returns: c.Exts[walkName] = wcCopy.
Configure(rel, f) ==
    LET res == ConfigureCall(rel, f) IN
    /\ CanConfigure(rel)
    /\ ~res.fatal
    /\ heap' = res.heap
    /\ walkConfigs' = [k \in DOMAIN walkConfigs \cup {rel} |->
                          IF k = rel THEN res.wc ELSE walkConfigs[k]]
    /\ built' = [k \in DOMAIN built \cup {rel} |->
                    IF k = rel
                    THEN [file   |-> f,
                          parent |-> ConfigValue(heap, ParentWalkConfig(rel)),
                          value  |-> ConfigValue(res.heap, res.wc),
                          log    |-> res.log]
                    ELSE built[k]]
    /\ UNCHANGED <<fatal, fatalAt, walkVars, previous, bazelIgnore, dirInfo, readers>>

\* Configure does not return: log.Fatalf ends the process.
ConfigureFatal(rel, f) ==
    LET res == ConfigureCall(rel, f) IN
    /\ CanConfigure(rel)
    /\ res.fatal
    /\ heap' = res.heap
    /\ fatal' = TRUE
    /\ fatalAt' = <<[rel |-> rel, file |-> f, wc |-> ConfigValue(res.heap, res.wc)]>>
    /\ UNCHANGED <<walkConfigs, built, walkVars, previous, bazelIgnore, dirInfo, readers>>

---------------------------------------------------------------------------
(* Directory loader (loadDirInfo) *)

NoError == <<>>

ZeroInfo == [subdirs |-> <<>>, regularFiles |-> <<>>, file |-> NoFile, config |-> RootWalkConfig]

\* A read that returns the entries in the order the directory stores them,
\* which is not the same from one run to the next.
ReadDirUnsorted(rel) ==
    LET e == fs[rel].entries IN
    IF fs[rel].readErr THEN <<>>
    ELSE IF previous = <<>> THEN e ELSE [i \in 1..Len(e) |-> e[Len(e) + 1 - i]]

\* os.ReadDir: the sorted entries, or none and an error.
ReadDir(rel) == IF fs[rel].readErr THEN <<>> ELSE fs[rel].entries

\* A failed read that is not reported.
ReadDirErrDropped(rel) == <<>>

ReadDirErr(rel) == IF fs[rel].readErr THEN <<"readdir">> ELSE <<>>

\* loadBuildFile: the build file found among the entries read, if any; a
\* build file with a syntax error gives no file and an error.
loadBuildFile(rel, entries) ==
    IF (\E i \in 1..Len(entries) : entries[i].name = "BUILD.bazel") /\ fs[rel].build.kind = "file"
    THEN fs[rel].build ELSE NoFile

loadBuildFileErr(rel, entries) ==
    IF (\E i \in 1..Len(entries) : entries[i].name = "BUILD.bazel") /\ fs[rel].build.kind = "bad"
    THEN <<"parse">> ELSE <<>>

\* A getLoaded that does not look at doneC: any slot in the map will do.
getLoadedAnySlot(key) == key \in DOMAIN entryMap

\* cache.getLoaded succeeds only for a slot that exists and is resolved.
getLoadedOk(key) == key \in DOMAIN entryMap /\ entryMap[key].done

\* A loop over the entries that keeps nothing.
SelectNothing(wc, rel, entries, wantDir) == <<>>

RECURSIVE SelectNames(_, _, _, _)
\* The loop over entries in loadDirInfo: names of the directories (wantDir)
\* or of the other entries that the configuration does not exclude.
SelectNames(wc, rel, entries, wantDir) ==
    IF entries = <<>> THEN <<>>
    ELSE LET e == Head(entries)
             entryRel == Join(rel, e.name)
             keep == IF wantDir
                     THEN e.isDir /\ ~isExcludedDir(wc, entryRel)
                     ELSE ~e.isDir /\ ~isExcludedFile(wc, entryRel)
         IN  (IF keep THEN <<e.name>> ELSE <<>>)
             \o SelectNames(wc, rel, Tail(entries), wantDir)

\* A loader that takes the root configuration whatever the parent's slot
\* holds.
RootConfigAlways(rel) == RootWalkConfig

\* The configuration loadDirInfo starts from: the root configuration for
\* the repo root, else the configuration in the parent's cache slot.
ParentConfig(rel) ==
    IF rel = Root THEN RootWalkConfig ELSE entryMap[Dir(rel)].info.config

\* loadDirInfo panics (inside getLoaded) when the parent was not loaded.
loadDirInfoPanics(rel) == rel # Root /\ ~getLoadedOk(Dir(rel))

\* loadDirInfo that also returns the error found in the parent's slot.
loadDirInfoPoisoned(rel) ==
    LET read    == ReadDir(rel)
        file    == loadBuildFile(rel, read)
        wc      == configureForWalk(ParentConfig(rel), rel, file)
        entries == IF isExcludedDir(wc, rel) THEN <<>> ELSE read
    IN  [info |-> [subdirs      |-> SelectNames(wc, rel, entries, TRUE),
                   regularFiles |-> SelectNames(wc, rel, entries, FALSE),
                   file         |-> file,
                   config       |-> wc],
         err  |-> (IF rel = Root THEN <<>> ELSE entryMap[Dir(rel)].err)
                  \o ReadDirErr(rel) \o loadBuildFileErr(rel, read)]

\* loadDirInfo that enumerates the entries of a directory that excludes
\* itself.
loadDirInfoKeepsContents(rel) ==
    LET read    == ReadDir(rel)
        file    == loadBuildFile(rel, read)
        wc      == configureForWalk(ParentConfig(rel), rel, file)
    IN  [info |-> [subdirs      |-> SelectNames(wc, rel, read, TRUE),
                   regularFiles |-> SelectNames(wc, rel, read, FALSE),
                   file         |-> file,
                   config       |-> wc],
         err  |-> ReadDirErr(rel) \o loadBuildFileErr(rel, read)]

loadDirInfo(rel) ==
    LET read    == ReadDir(rel)
        file    == loadBuildFile(rel, read)
        wc      == configureForWalk(ParentConfig(rel), rel, file)
        entries == IF isExcludedDir(wc, rel) THEN <<>> ELSE read
    IN  [info |-> [subdirs      |-> SelectNames(wc, rel, entries, TRUE),
                   regularFiles |-> SelectNames(wc, rel, entries, FALSE),
                   file         |-> file,
                   config       |-> wc],
         err  |-> ReadDirErr(rel) \o loadBuildFileErr(rel, read)]

---------------------------------------------------------------------------
(* Goroutines *)

\* The main goroutine, and the prefetch worker visiting rel that descends
\* from the i-th goroutine started by populateCache.
Main == <<0, Root>>

Worker(i, rel) == <<i, rel>>

Task(pc, rel) == [pc |-> pc, rel |-> rel, idx |-> 1, info |-> ZeroInfo, err |-> NoError]

Workers == DOMAIN tasks \ {Main}

Recursive(m) == m \in {"VisitAllUpdateSubdirs", "UpdateSubdirs"}

---------------------------------------------------------------------------
(* Directory cache (cache.get) *)

\* entryMap.Load(key) found an entry.
Load(key) == key \in DOMAIN entryMap

\* A plain Store in place of LoadOrStore: the entry is always installed.
StoreAlways(key) == FALSE

\* entryMap.LoadOrStore(key, entry) found an entry and stored nothing.
LoadOrStore(key) == key \in DOMAIN entryMap

\* An entry whose doneC is already closed when it is installed.
ClosedEntry(t) == [done |-> TRUE, info |-> ZeroInfo, err |-> NoError, owner |-> t]

\* &cacheEntry{doneC: make(chan struct{})}: a pending entry of task t.
NewEntry(t) == [done |-> FALSE, info |-> ZeroInfo, err |-> NoError, owner |-> t]

\* A receive that does not block on an open channel.
doneNotAwaited(key) == TRUE

\* <-entry.doneC can proceed: the channel of the entry in the map is closed.
doneClosed(key) == entryMap[key].done

\* get, first statement: the optimistic entryMap.Load.
CacheLoad(t) ==
    /\ ~panicked
    /\ tasks[t].pc = "get"
    /\ tasks' = [tasks EXCEPT ![t].pc = IF Load(tasks[t].rel) THEN "wait" ELSE "store"]
    /\ UNCHANGED <<cfgVars, previous, bazelIgnore, dirInfo, readers, fs, rels, mode, variant, entryMap, sem, wg, phase, todo, stack,
                   configureRels, callbackRels, loadCount, loaded, getReturns,
                   closeCount, panicked>>

\* get: allocate an entry and LoadOrStore it; the loser of a race waits on
\* the entry that is in the map.
CacheLoadOrStore(t) ==
    LET key == tasks[t].rel IN
    /\ ~panicked
    /\ tasks[t].pc = "store"
    /\ IF LoadOrStore(key)
       THEN /\ tasks' = [tasks EXCEPT ![t].pc = "wait"]
            /\ UNCHANGED entryMap
       ELSE /\ tasks' = [tasks EXCEPT ![t].pc = "load"]
            /\ entryMap' = [k \in DOMAIN entryMap \cup {key} |->
                               IF k = key THEN NewEntry(t) ELSE entryMap[k]]
    /\ UNCHANGED <<cfgVars, previous, bazelIgnore, dirInfo, readers, fs, rels, mode, variant, sem, wg, phase, todo, stack,
                   configureRels, callbackRels, loadCount, loaded, getReturns,
                   closeCount, panicked>>

\* get: entry.info, entry.err = load(key). loadDirInfo panics when the
\* parent's slot is missing or pending.
CacheRunLoader(t) ==
    LET key == tasks[t].rel
        res == loadDirInfo(key)
    IN
    /\ ~panicked
    /\ tasks[t].pc = "load"
    /\ loadCount' = [loadCount EXCEPT ![key] = @ + 1]
    /\ IF loadDirInfoPanics(key)
       THEN /\ panicked' = TRUE
            /\ UNCHANGED <<tasks, entryMap, loaded>>
       ELSE /\ tasks' = [tasks EXCEPT ![t].pc = "close", ![t].info = res.info, ![t].err = res.err]
            /\ entryMap' = [entryMap EXCEPT ![key].info = res.info, ![key].err = res.err]
            /\ loaded' = [loaded EXCEPT ![key] = @ \cup {res}]
            /\ UNCHANGED panicked
    /\ UNCHANGED <<cfgVars, previous, bazelIgnore, dirInfo, readers, fs, rels, mode, variant, sem, wg, phase, todo, stack,
                   configureRels, callbackRels, getReturns, closeCount>>

\* A get that returns to the caller without closing entry.doneC.
CacheReturnUnclosed(t) ==
    LET key == tasks[t].rel IN
    /\ ~panicked
    /\ tasks[t].pc = "close"
    /\ closeCount' = [closeCount EXCEPT ![key] = @ + 1]
    /\ tasks' = [tasks EXCEPT ![t].pc = "ret"]
    /\ getReturns' = getReturns \cup {[key |-> key, info |-> tasks[t].info, err |-> tasks[t].err]}
    /\ UNCHANGED <<cfgVars, previous, bazelIgnore, dirInfo, readers, fs, rels, mode, variant, entryMap, sem, wg, phase, todo, stack,
                   configureRels, callbackRels, loadCount, loaded, panicked>>

\* get: the deferred close(entry.doneC), then the return to the caller.
CacheClose(t) ==
    LET key == tasks[t].rel IN
    /\ ~panicked
    /\ tasks[t].pc = "close"
    /\ entryMap' = [entryMap EXCEPT ![key].done = TRUE]
    /\ closeCount' = [closeCount EXCEPT ![key] = @ + 1]
    /\ tasks' = [tasks EXCEPT ![t].pc = "ret"]
    /\ getReturns' = getReturns \cup {[key |-> key, info |-> tasks[t].info, err |-> tasks[t].err]}
    /\ UNCHANGED <<cfgVars, previous, bazelIgnore, dirInfo, readers, fs, rels, mode, variant, sem, wg, phase, todo, stack,
                   configureRels, callbackRels, loadCount, loaded, panicked>>

\* get: <-entry.doneC on an entry another call installed, then the return
\* of that entry's info and err.
CacheWait(t) ==
    LET key == tasks[t].rel IN
    /\ ~panicked
    /\ tasks[t].pc = "wait"
    /\ doneClosed(key)
    /\ tasks' = [tasks EXCEPT ![t].pc = "ret", ![t].info = entryMap[key].info,
                              ![t].err = entryMap[key].err]
    /\ getReturns' = getReturns \cup {[key |-> key, info |-> entryMap[key].info,
                                       err |-> entryMap[key].err]}
    /\ UNCHANGED <<cfgVars, previous, bazelIgnore, dirInfo, readers, fs, rels, mode, variant, entryMap, sem, wg, phase, todo, stack,
                   configureRels, callbackRels, loadCount, loaded, closeCount, panicked>>

---------------------------------------------------------------------------
(* Mode policy of the walker *)

RelSet == { rels[i] : i \in 1..Len(rels) }

\* The requested directories and all their ancestors.
VisitRels == { p \in DOMAIN fs : \E r \in RelSet : IsPrefix(p, r) }

\* Only the requested directories and their ancestors are entered.
shouldVisitRequested(rel, updateParent) == rel \in VisitRels

shouldVisit(rel, updateParent) ==
    CASE mode \in {"VisitAllUpdateSubdirs", "VisitAllUpdateDirs"} -> TRUE
      [] mode = "UpdateSubdirs" -> rel \in VisitRels \/ updateParent
      [] OTHER -> rel \in VisitRels

\* The update flag is inherited from the parent in every mode.
shouldUpdateInherit(rel, updateParent) == updateParent \/ rel \in RelSet

shouldUpdate(rel, updateParent) ==
    (Recursive(mode) /\ updateParent) \/ rel \in RelSet

\* The WalkFunc is called for every directory entered.
shouldCallAlways(rel, updateParent) == TRUE

shouldCall(rel, updateParent) ==
    mode \in {"VisitAllUpdateSubdirs", "VisitAllUpdateDirs"} \/ shouldUpdate(rel, updateParent)

---------------------------------------------------------------------------
(* Parallel prefetcher (populateCache) *)

\* No directory prefix is loaded ahead of the goroutines.
NoPrefixes(dir) == <<>>

\* The proper prefixes of dir that end before a "/", shortest first.
Prefixes(dir) == [i \in 1..(Len(dir) - 1) |-> SubSeq(dir, 1, i)]

RECURSIVE AllPrefixes(_)
AllPrefixes(rs) ==
    IF rs = <<>> THEN <<>> ELSE Prefixes(Head(rs)) \o AllPrefixes(Tail(rs))

\* The keys populateCache(rels) loads serially before it starts a goroutine.
PrefixList(rs) == <<Root>> \o AllPrefixes(rs)

\* Whether visit spawns a goroutine for the subdirectory.
SpawnWanted(rel, info, subdir) ==
    IF variant = 1
    THEN ~isExcludedDir(info.config, Join(rel, subdir))
    ELSE shouldVisit(Join(rel, subdir), TRUE)

\* Index of the first subdirectory at or after from that visit spawns a
\* goroutine for; Len + 1 when there is none.
NextChild(rel, info, from) ==
    LET n     == Len(info.subdirs)
        cands == { i \in from..n : SpawnWanted(rel, info, info.subdirs[i]) }
    IN  IF cands = {} THEN n + 1 ELSE CHOOSE i \in cands : \A j \in cands : i <= j

\* The goroutine that runs visit for a child of the directory t visits.
ChildOf(t, subRel) == Worker(IF t = Main THEN 1 ELSE t[1], subRel)

\* A send on sem that never blocks.
semNeverFull == TRUE

\* sem <- struct{}{} can proceed: the channel's buffer is not full.
semAcquire == sem < SemCap

\* A task is inside visit when it is a worker, or main in populateCache().
InVisit(t) == t # Main \/ phase = "visit2"

\* Walk: build the walker; prefetch when the mode recurses.
MainStart ==
    /\ ~panicked
    /\ phase = "start"
    /\ IF ~Recursive(mode)
       THEN /\ phase' = "walk"
            /\ UNCHANGED <<todo, sem, tasks>>
       ELSE IF variant = 1
            THEN /\ phase' = "prefix"
                 /\ todo' = PrefixList(rels)
                 /\ UNCHANGED <<sem, tasks>>
            ELSE /\ phase' = "visit2"
                 /\ sem' = sem + 1
                 /\ tasks' = [tasks EXCEPT ![Main] = Task("get", Root)]
                 /\ UNCHANGED todo
    /\ UNCHANGED <<cfgVars, previous, bazelIgnore, dirInfo, readers, fs, rels, mode, variant, entryMap, wg, stack, configureRels,
                   callbackRels, loadCount, loaded, getReturns, closeCount, panicked>>

\* populateCache(rels): w.cache.get on "" and on each directory prefix.
MainPrefix ==
    /\ ~panicked
    /\ phase = "prefix"
    /\ tasks[Main].pc \in {"idle", "ret"}
    /\ IF todo = <<>>
       THEN /\ phase' = "roots"
            /\ tasks' = [tasks EXCEPT ![Main] = Task("idle", Root)]
            /\ UNCHANGED todo
       ELSE /\ tasks' = [tasks EXCEPT ![Main] = Task("get", Head(todo))]
            /\ todo' = Tail(todo)
            /\ UNCHANGED phase
    /\ UNCHANGED <<cfgVars, previous, bazelIgnore, dirInfo, readers, fs, rels, mode, variant, entryMap, sem, wg, stack, configureRels,
                   callbackRels, loadCount, loaded, getReturns, closeCount, panicked>>

\* populateCache(rels): acquire the semaphore and start a goroutine for the
\* next requested directory.
MainSpawnRoot ==
    LET i == tasks[Main].idx IN
    /\ ~panicked
    /\ phase = "roots"
    /\ i <= Len(rels)
    /\ semAcquire
    /\ sem' = sem + 1
    /\ wg' = wg + 1
    /\ tasks' = [t \in DOMAIN tasks \cup {Worker(i, rels[i])} |->
                    IF t = Main THEN [tasks[Main] EXCEPT !.idx = i + 1]
                    ELSE IF t = Worker(i, rels[i]) THEN Task("get", rels[i])
                    ELSE tasks[t]]
    /\ UNCHANGED <<cfgVars, previous, bazelIgnore, dirInfo, readers, fs, rels, mode, variant, entryMap, phase, todo, stack, configureRels,
                   callbackRels, loadCount, loaded, getReturns, closeCount, panicked>>

\* visit that keeps its token of the semaphore while it starts the
\* goroutines of the subdirectories.
ReleaseNever(t) ==
    LET me   == tasks[t]
        next == NextChild(me.rel, me.info, 1)
    IN
    /\ ~panicked
    /\ InVisit(t)
    /\ me.pc = "ret"
    /\ tasks' = [tasks EXCEPT ![t].pc = IF me.err # NoError \/ next > Len(me.info.subdirs)
                                        THEN "exit" ELSE "spawn",
                              ![t].idx = next]
    /\ UNCHANGED <<cfgVars, previous, bazelIgnore, dirInfo, readers, fs, rels, mode, variant, entryMap, sem, wg, phase, todo, stack,
                   configureRels, callbackRels, loadCount, loaded, getReturns, closeCount, panicked>>

\* visit that goes on to the subdirectories whatever cache.get returned.
ReleaseIgnoresError(t) ==
    LET me   == tasks[t]
        next == NextChild(me.rel, me.info, 1)
    IN
    /\ ~panicked
    /\ InVisit(t)
    /\ me.pc = "ret"
    /\ sem' = sem - 1
    /\ tasks' = [tasks EXCEPT ![t].pc = IF next > Len(me.info.subdirs) THEN "exit" ELSE "spawn",
                              ![t].idx = next]
    /\ UNCHANGED <<cfgVars, previous, bazelIgnore, dirInfo, readers, fs, rels, mode, variant, entryMap, wg, phase, todo, stack, configureRels,
                   callbackRels, loadCount, loaded, getReturns, closeCount, panicked>>

\* visit: <-sem after cache.get returned; return on error.
Release(t) ==
    LET me   == tasks[t]
        next == NextChild(me.rel, me.info, 1)
    IN
    /\ ~panicked
    /\ InVisit(t)
    /\ me.pc = "ret"
    /\ sem' = sem - 1
    /\ tasks' = [tasks EXCEPT ![t].pc = IF me.err # NoError \/ next > Len(me.info.subdirs)
                                        THEN "exit" ELSE "spawn",
                              ![t].idx = next]
    /\ UNCHANGED <<cfgVars, previous, bazelIgnore, dirInfo, readers, fs, rels, mode, variant, entryMap, wg, phase, todo, stack, configureRels,
                   callbackRels, loadCount, loaded, getReturns, closeCount, panicked>>

\* visit: acquire the semaphore for the next subdirectory to traverse,
\* wg.Add(1) and start its goroutine.
Spawn(t) ==
    LET me     == tasks[t]
        subRel == Join(me.rel, me.info.subdirs[me.idx])
        child  == ChildOf(t, subRel)
        next   == NextChild(me.rel, me.info, me.idx + 1)
    IN
    /\ ~panicked
    /\ InVisit(t)
    /\ me.pc = "spawn"
    /\ semAcquire
    /\ sem' = sem + 1
    /\ wg' = wg + 1
    /\ tasks' = [u \in DOMAIN tasks \cup {child} |->
                    IF u = child THEN Task("get", subRel)
                    ELSE IF u = t
                         THEN [me EXCEPT !.idx = next,
                                         !.pc = IF next > Len(me.info.subdirs) THEN "exit" ELSE "spawn"]
                         ELSE tasks[u]]
    /\ UNCHANGED <<cfgVars, previous, bazelIgnore, dirInfo, readers, fs, rels, mode, variant, entryMap, phase, todo, stack, configureRels,
                   callbackRels, loadCount, loaded, getReturns, closeCount, panicked>>

\* The deferred wg.Done() of a goroutine whose visit returned.
WorkerExit(t) ==
    /\ ~panicked
    /\ t # Main
    /\ tasks[t].pc = "exit"
    /\ wg' = wg - 1
    /\ tasks' = [tasks EXCEPT ![t].pc = "exited"]
    /\ UNCHANGED <<cfgVars, previous, bazelIgnore, dirInfo, readers, fs, rels, mode, variant, entryMap, sem, phase, todo, stack, configureRels,
                   callbackRels, loadCount, loaded, getReturns, closeCount, panicked>>

\* wg.Wait() that returns whatever the counter is.
MainWaitEarly ==
    /\ ~panicked
    /\ \/ phase = "roots" /\ tasks[Main].idx > Len(rels)
       \/ phase = "visit2" /\ tasks[Main].pc = "exit"
    /\ phase' = "walk"
    /\ tasks' = [tasks EXCEPT ![Main] = Task("idle", Root)]
    /\ UNCHANGED <<cfgVars, previous, bazelIgnore, dirInfo, readers, fs, rels, mode, variant, entryMap, sem, wg, todo, stack, configureRels,
                   callbackRels, loadCount, loaded, getReturns, closeCount, panicked>>

\* populateCache: wg.Wait() returns once the counter is zero.
MainWait ==
    /\ ~panicked
    /\ \/ phase = "roots" /\ tasks[Main].idx > Len(rels)
       \/ phase = "visit2" /\ tasks[Main].pc = "exit"
    /\ wg = 0
    /\ phase' = "walk"
    /\ tasks' = [tasks EXCEPT ![Main] = Task("idle", Root)]
    /\ UNCHANGED <<cfgVars, previous, bazelIgnore, dirInfo, readers, fs, rels, mode, variant, entryMap, sem, wg, todo, stack, configureRels,
                   callbackRels, loadCount, loaded, getReturns, closeCount, panicked>>

---------------------------------------------------------------------------
(* Serial walk driver (Walk, walker.visit) *)

Frame(rel, updateParent) ==
    [rel |-> rel, updateParent |-> updateParent, stage |-> "get", idx |-> 1,
     haveError |-> FALSE, info |-> ZeroInfo, shouldUpdate |-> FALSE, regularFiles |-> <<>>]

Top == stack[Len(stack)]

\* The files of a subdirectory taken over without the subdirectory's name.
UnprefixedNames(sub, files) == files

RECURSIVE PrefixNames(_, _)
\* path.Join(sub, f) for each rolled-up file f of subdirectory sub.
PrefixNames(sub, files) ==
    IF files = <<>> THEN <<>>
    ELSE <<<<sub>> \o Head(files)>> \o PrefixNames(sub, Tail(files))

RECURSIVE AsPaths(_)
AsPaths(names) ==
    IF names = <<>> THEN <<>> ELSE <<<<Head(names)>>>> \o AsPaths(Tail(names))

\* A directory without a build file under generation_mode update_only only
\* collects its files for the parent.
collectionOnly(info) == info.file.kind = "nil" /\ info.config.updateOnly

\* The directory's build file failed to parse.
ParseFailed(err) == \E i \in 1..Len(err) : err[i] = "parse"

\* The update flag passed to the WalkFunc.
UpdateFlag(haveError, wc, should) == ~haveError /\ ~wc.ignore /\ should

\* Order of the steps of visit: the configurers run before the recursion
\* into the subdirectories, the WalkFunc is called after it.
PostorderConfigure == FALSE

configureBeforeSubdirs == TRUE

PreorderCallback == FALSE

callbackAfterSubdirs == TRUE

\* The arguments of one WalkFunc call.
CallRecord(rel, haveError, info, should, files) ==
    [rel          |-> rel,
     update       |-> UpdateFlag(haveError, info.config, should),
     subdirs      |-> info.subdirs,
     regularFiles |-> files]

\* The stack after the top call of visit returned files to its caller.
Returned(files, merge) ==
    LET rest == SubSeq(stack, 1, Len(stack) - 1) IN
    IF rest = <<>> THEN <<>>
    ELSE LET caller == rest[Len(rest)]
             sub    == caller.info.subdirs[caller.idx]
         IN  [rest EXCEPT ![Len(rest)] =
                 [caller EXCEPT !.idx = @ + 1,
                                !.regularFiles = IF merge THEN @ \o PrefixNames(sub, files) ELSE @]]

\* Walk: w.visit(c, "", false).
WalkStart ==
    /\ ~panicked
    /\ phase = "walk"
    /\ phase' = "visiting"
    /\ stack' = <<Frame(Root, FALSE)>>
    /\ tasks' = [tasks EXCEPT ![Main] = Task("get", Root)]
    /\ UNCHANGED <<cfgVars, previous, bazelIgnore, dirInfo, readers, fs, rels, mode, variant, entryMap, sem, wg, todo, configureRels,
                   callbackRels, loadCount, loaded, getReturns, closeCount, panicked>>

\* visit, after w.cache.get returned: run the configurers on the directory,
\* return at once if the directory excludes itself.
VisitConfigure ==
    LET me       == tasks[Main]
        wc       == me.info.config
        excluded == isExcluded(wc, Top.rel)
        should   == shouldUpdate(Top.rel, Top.updateParent)
        called   == ~excluded /\ ~collectionOnly(me.info) /\ shouldCall(Top.rel, Top.updateParent)
    IN
    /\ ~panicked
    /\ phase = "visiting"
    /\ me.pc = "ret"
    /\ Top.stage = "get"
    /\ configureRels' = IF configureBeforeSubdirs \/ excluded
                        THEN Append(configureRels, Top.rel) ELSE configureRels
    /\ callbackRels' = IF ~callbackAfterSubdirs /\ called
                       THEN Append(callbackRels,
                                   CallRecord(Top.rel, ParseFailed(me.err), me.info, should,
                                              AsPaths(me.info.regularFiles)))
                       ELSE callbackRels
    /\ tasks' = [tasks EXCEPT ![Main].pc = "idle"]
    /\ IF excluded
       THEN /\ stack' = Returned(<<>>, FALSE)
            /\ phase' = IF Len(stack) = 1 THEN "finished" ELSE phase
       ELSE /\ stack' = [stack EXCEPT ![Len(stack)] =
                            [Top EXCEPT !.stage = "sub",
                                        !.haveError = ParseFailed(me.err),
                                        !.info = me.info,
                                        !.shouldUpdate = should,
                                        !.regularFiles = AsPaths(me.info.regularFiles)]]
            /\ UNCHANGED phase
    /\ UNCHANGED <<cfgVars, previous, bazelIgnore, dirInfo, readers, fs, rels, mode, variant, entryMap, sem, wg, todo,
                   loadCount, loaded, getReturns, closeCount, panicked>>

\* visit: one iteration of the loop over the subdirectories.
VisitSubdir ==
    LET subRel == Join(Top.rel, Top.info.subdirs[Top.idx]) IN
    /\ ~panicked
    /\ phase = "visiting"
    /\ stack # <<>>
    /\ Top.stage = "sub"
    /\ Top.idx <= Len(Top.info.subdirs)
    /\ IF shouldVisit(subRel, Top.shouldUpdate)
       THEN /\ stack' = Append(stack, Frame(subRel, Top.shouldUpdate))
            /\ tasks' = [tasks EXCEPT ![Main] = Task("get", subRel)]
       ELSE /\ stack' = [stack EXCEPT ![Len(stack)].idx = @ + 1]
            /\ UNCHANGED tasks
    /\ UNCHANGED <<cfgVars, previous, bazelIgnore, dirInfo, readers, fs, rels, mode, variant, entryMap, sem, wg, phase, todo, configureRels,
                   callbackRels, loadCount, loaded, getReturns, closeCount, panicked>>

\* visit, after the loop: hand the files to the caller (roll-up), or call
\* the WalkFunc if the mode asks for it; then return.
VisitCallback ==
    LET rollup == collectionOnly(Top.info)
        called == ~rollup /\ shouldCall(Top.rel, Top.updateParent)
    IN
    /\ ~panicked
    /\ phase = "visiting"
    /\ stack # <<>>
    /\ Top.stage = "sub"
    /\ Top.idx > Len(Top.info.subdirs)
    /\ configureRels' = IF configureBeforeSubdirs
                        THEN configureRels ELSE Append(configureRels, Top.rel)
    /\ callbackRels' =
          IF callbackAfterSubdirs /\ called
          THEN Append(callbackRels,
                      CallRecord(Top.rel, Top.haveError, Top.info, Top.shouldUpdate,
                                 Top.regularFiles))
          ELSE callbackRels
    /\ stack' = Returned(Top.regularFiles, rollup)
    /\ phase' = IF Len(stack) = 1 THEN "finished" ELSE phase
    /\ UNCHANGED <<cfgVars, previous, bazelIgnore, dirInfo, readers, fs, rels, mode, variant, entryMap, tasks, sem, wg, todo,
                   loadCount, loaded, getReturns, closeCount, panicked>>

---------------------------------------------------------------------------
(* The slices of a DirInfo and their readers *)

\* Largest number of entries, and of declared outputs, of the directory.
MaxEntries == 3

\* How many elements one reader appends.
MaxAppends == 1

\* The callers of cache.get that hold the DirInfo.
ReaderIds == {1, 2}

Fields == {"Subdirs", "RegularFiles", "GenFiles"}

\* A slice s[:len:cap] of the backing array arr (0: none).
CapSlice(arr, len, cap) == [arr |-> arr, len |-> len, cap |-> cap]

\* The elements of a slice.
Elems(h, sl) == IF sl.arr = 0 THEN <<>> ELSE SubSeq(h[sl.arr], 1, sl.len)

\* append(sl, x): written in place when the capacity allows, else into a
\* new array that holds a copy of the elements.
AppendCap(h, sl, x) ==
    IF sl.len < sl.cap
    THEN [heap  |-> [h EXCEPT ![sl.arr] = SubSeq(@, 1, sl.len) \o <<x>>
                                           \o SubSeq(@, sl.len + 2, Len(@))],
          slice |-> [sl EXCEPT !.len = @ + 1]]
    ELSE LET n == GrowCap(sl.len) IN
         [heap  |-> Append(h, Elems(h, sl) \o <<x>>
                              \o SubSeq(ZeroArray, 1, n - sl.len - 1)),
          slice |-> CapSlice(Len(h) + 1, sl.len + 1, n)]

RECURSIVE AppendAll(_, _, _)
\* append(sl, x) for every x of xs in turn.
AppendAll(h, sl, xs) ==
    IF xs = <<>> THEN [heap |-> h, slice |-> sl]
    ELSE LET r == AppendCap(h, sl, Head(xs)) IN AppendAll(r.heap, r.slice, Tail(xs))

\* s[:len(s):len(s)]: the capacity reduced to the length.
Clip(sl) == [sl EXCEPT !.cap = sl.len]

\* No call of loadDirInfo under way.
NoDirInfo == [pc |-> "none"]

\* var info DirInfo, before the loop over the entries kept and the outputs
\* the build file declares.
NewDirInfo(entries, outs) ==
    [pc       |-> "loop",
     entries  |-> entries,
     outs     |-> outs,
     slices   |-> [f \in Fields |-> CapSlice(0, 0, 0)],
     returned |-> [f \in Fields |-> <<>>]]

\* The listings of a directory: up to MaxEntries entries, each a directory
\* or a file.
Listings ==
    UNION { [1..n -> {TRUE, FALSE}] : n \in 0..MaxEntries }

ListingEntries(l) == [i \in 1..Len(l) |-> Entry(<<"e", i>>, l[i])]

OutNames(n) == [i \in 1..n |-> <<"out", i>>]

\* loadDirInfo: one iteration of the loop over the entries.
LoadEntry ==
    /\ dirInfo.pc = "loop"
    /\ dirInfo.entries # <<>>
    /\ LET e == Head(dirInfo.entries)
           f == IF e.isDir THEN "Subdirs" ELSE "RegularFiles"
           r == AppendCap(heap, dirInfo.slices[f], e.name)
       IN  /\ heap' = r.heap
           /\ dirInfo' = [dirInfo EXCEPT !.entries = Tail(@), !.slices[f] = r.slice]
    /\ UNCHANGED <<walkVars, walkConfigs, built, fatal, fatalAt, previous, bazelIgnore, readers>>

\* loadDirInfo of part_002: info.GenFiles = findGenFiles(...). The loader of
\* part_003 has no GenFiles and returns after the loop.
LoadGenFiles ==
    /\ dirInfo.pc = "loop"
    /\ dirInfo.entries = <<>>
    /\ IF variant = 2
       THEN LET r == AppendAll(heap, dirInfo.slices["GenFiles"], dirInfo.outs) IN
            /\ heap' = r.heap
            /\ dirInfo' = [dirInfo EXCEPT !.pc = "clip", !.slices["GenFiles"] = r.slice]
       ELSE /\ dirInfo' = [dirInfo EXCEPT !.pc = "return"]
            /\ UNCHANGED heap
    /\ UNCHANGED <<walkVars, walkConfigs, built, fatal, fatalAt, previous, bazelIgnore, readers>>

\* loadDirInfo of part_002: the cap of each slice is reduced to its len.
LoadClip ==
    /\ dirInfo.pc = "clip"
    /\ dirInfo' = [dirInfo EXCEPT !.pc = "return",
                                  !.slices = [f \in Fields |-> Clip(dirInfo.slices[f])]]
    /\ UNCHANGED <<walkVars, cfgVars, previous, bazelIgnore, readers>>

\* return info: the DirInfo is stored in the cache entry.
LoadReturn ==
    /\ dirInfo.pc = "return"
    /\ dirInfo' = [dirInfo EXCEPT !.pc = "published",
                                  !.returned = [f \in Fields |-> Elems(heap, dirInfo.slices[f])]]
    /\ UNCHANGED <<walkVars, cfgVars, previous, bazelIgnore, readers>>

\* A reader that holds nothing yet.
NoReader == [got |-> FALSE, appended |-> 0,
             slices |-> [f \in Fields |-> CapSlice(0, 0, 0)],
             expect |-> [f \in Fields |-> <<>>]]

\* cache.get returns the DirInfo of the entry to reader r: a copy of the
\* three slice headers.
ReaderGet(r) ==
    /\ dirInfo.pc = "published"
    /\ ~readers[r].got
    /\ readers' = [readers EXCEPT ![r] =
                      [got |-> TRUE, appended |-> 0,
                       slices |-> dirInfo.slices,
                       expect |-> [f \in Fields |-> Elems(heap, dirInfo.slices[f])]]]
    /\ UNCHANGED <<walkVars, cfgVars, previous, bazelIgnore, dirInfo>>

\* Reader r appends a name of its own to the slice it holds of field f.
ReaderAppend(r, f) ==
    /\ readers[r].got
    /\ readers[r].appended < MaxAppends
    /\ LET x   == <<"reader", r>>
           res == AppendCap(heap, readers[r].slices[f], x)
       IN  /\ heap' = res.heap
           /\ readers' = [readers EXCEPT ![r].appended = @ + 1,
                                         ![r].slices[f] = res.slice,
                                         ![r].expect[f] = Append(@, x)]
    /\ UNCHANGED <<walkVars, walkConfigs, built, fatal, fatalAt, previous, bazelIgnore, dirInfo>>

InitReaders ==
    /\ fs = MkFS({})
    /\ rels = <<Root>>
    /\ mode = "VisitAllUpdateSubdirs"
    /\ variant \in {1, 2}
    /\ entryMap = [k \in {} |-> NewEntry(Main)]
    /\ tasks = [t \in {Main} |-> Task("idle", Root)]
    /\ sem = 0
    /\ wg = 0
    /\ phase = "start"
    /\ todo = <<>>
    /\ stack = <<>>
    /\ configureRels = <<>>
    /\ callbackRels = <<>>
    /\ loadCount = [k \in DOMAIN fs |-> 0]
    /\ loaded = [k \in DOMAIN fs |-> {}]
    /\ getReturns = {}
    /\ closeCount = [k \in DOMAIN fs |-> 0]
    /\ panicked = FALSE
    /\ heap = <<>>
    /\ walkConfigs = <<>>
    /\ built = <<>>
    /\ fatal = FALSE
    /\ fatalAt = <<>>
    /\ previous = <<>>
    /\ bazelIgnore = <<>>
    /\ \E l \in Listings, n \in 0..MaxEntries :
          dirInfo = NewDirInfo(ListingEntries(l), OutNames(n))
    /\ readers = [r \in ReaderIds |-> NoReader]

NextReaders ==
    \/ LoadEntry
    \/ LoadGenFiles
    \/ LoadClip
    \/ LoadReturn
    \/ \E r \in ReaderIds : ReaderGet(r)
    \/ \E r \in ReaderIds, f \in Fields : ReaderAppend(r, f)

SpecReaders == InitReaders /\ [][NextReaders]_vars

---------------------------------------------------------------------------
(* The cache on its own: goroutines that call get in any order *)

\* The goroutines that call cache.get, and how many calls each makes.
NumCallers == 3

MaxCalls == 1

Caller(i) == <<i, Root>>

Callers == { Caller(i) : i \in 1..NumCallers }

\* The keys get is called with.
CacheKeys == { Root, <<"a">>, <<"a", "b">> }

\* Goroutine t calls w.cache.get(key, w.loadDirInfo).
Call(t, key) ==
    /\ ~panicked
    /\ tasks[t].pc \in {"idle", "ret"}
    /\ tasks[t].idx <= MaxCalls
    /\ tasks' = [tasks EXCEPT ![t] = [Task("get", key) EXCEPT !.idx = tasks[t].idx + 1]]
    /\ UNCHANGED <<cfgVars, previous, bazelIgnore, dirInfo, readers, fs, rels, mode, variant, entryMap, sem, wg, phase, todo, stack,
                   configureRels, callbackRels, loadCount, loaded, getReturns,
                   closeCount, panicked>>

InitCache ==
    /\ fs \in { MkFS({}), MkFS({<<<<"a">>, "exclude">>}),
                 MkFS({<<Root, "rich">>, <<<<"a">>, "unreadable">>}),
                 MkFS({<<Root, "rich">>, <<<<"a">>, "bad">>}) }
    /\ rels = <<Root>>
    /\ mode = "VisitAllUpdateSubdirs"
    /\ variant = 1
    /\ entryMap = [k \in {} |-> NewEntry(Main)]
    /\ tasks = [t \in Callers |-> Task("idle", Root)]
    /\ sem = 0
    /\ wg = 0
    /\ phase = "start"
    /\ todo = <<>>
    /\ stack = <<>>
    /\ configureRels = <<>>
    /\ callbackRels = <<>>
    /\ loadCount = [k \in DOMAIN fs |-> 0]
    /\ loaded = [k \in DOMAIN fs |-> {}]
    /\ getReturns = {}
    /\ closeCount = [k \in DOMAIN fs |-> 0]
    /\ panicked = FALSE
    /\ heap = <<>>
    /\ walkConfigs = <<>>
    /\ built = <<>>
    /\ fatal = FALSE
    /\ fatalAt = <<>>
    /\ previous = <<>>
    /\ bazelIgnore = <<>>
    /\ dirInfo = NoDirInfo
    /\ readers = <<>>

NextCache ==
    \/ \E t \in DOMAIN tasks, key \in CacheKeys : Call(t, key)
    \/ \E t \in DOMAIN tasks : CacheLoad(t)
    \/ \E t \in DOMAIN tasks : CacheLoadOrStore(t)
    \/ \E t \in DOMAIN tasks : CacheRunLoader(t)
    \/ \E t \in DOMAIN tasks : CacheClose(t)
    \/ \E t \in DOMAIN tasks : CacheWait(t)

SpecCache == InitCache /\ [][NextCache]_vars

\* The call load(key) of goroutine t returns: the step that counts a load
\* of the key t is loading.
LoaderReturns(t) ==
    /\ ~panicked
    /\ tasks[t].pc = "load"
    /\ loadCount' = [loadCount EXCEPT ![tasks[t].rel] = @ + 1]

\* Every goroutine inside cache.get that can take its next step takes it
\* in the end, and every loader call returns (or panics).
FairSpecCache ==
    /\ SpecCache
    /\ \A t \in Callers :
          /\ WF_vars(CacheLoad(t))
          /\ WF_vars(CacheLoadOrStore(t))
          /\ WF_loadCount(LoaderReturns(t))
          /\ WF_vars(CacheClose(t))
          /\ WF_vars(CacheWait(t))

---------------------------------------------------------------------------
(* Specification *)

Init ==
    /\ fs \in FileSystems
    /\ rels \in RelsChoices
    /\ mode \in Modes
    \* In the recursive modes a request for the repo root covers every
    \* other request, so the root is requested alone there.
    /\ Recursive(mode) /\ Len(rels) > 1 => \A i \in 1..Len(rels) : rels[i] # Root
    /\ variant \in {1, 2}
    /\ entryMap = [k \in {} |-> NewEntry(Main)]
    /\ tasks = [t \in {Main} |-> Task("idle", Root)]
    /\ sem = 0
    /\ wg = 0
    /\ phase = "start"
    /\ todo = <<>>
    /\ stack = <<>>
    /\ configureRels = <<>>
    /\ callbackRels = <<>>
    /\ loadCount = [k \in Universe |-> 0]
    /\ loaded = [k \in Universe |-> {}]
    /\ getReturns = {}
    /\ closeCount = [k \in Universe |-> 0]
    /\ panicked = FALSE
    /\ heap = <<>>
    /\ walkConfigs = <<>>
    /\ built = <<>>
    /\ fatal = FALSE
    /\ fatalAt = <<>>
    /\ previous = <<>>
    /\ bazelIgnore = <<>>
    /\ dirInfo = NoDirInfo
    /\ readers = <<>>

Next ==
    \/ MainStart
    \/ MainPrefix
    \/ MainSpawnRoot
    \/ MainWait
    \/ WalkStart
    \/ VisitConfigure
    \/ VisitSubdir
    \/ VisitCallback
    \/ \E t \in DOMAIN tasks : CacheLoad(t)
    \/ \E t \in DOMAIN tasks : CacheLoadOrStore(t)
    \/ \E t \in DOMAIN tasks : CacheRunLoader(t)
    \/ \E t \in DOMAIN tasks : CacheClose(t)
    \/ \E t \in DOMAIN tasks : CacheWait(t)
    \/ \E t \in DOMAIN tasks : Release(t)
    \/ \E t \in DOMAIN tasks : Spawn(t)
    \/ \E t \in DOMAIN tasks : WorkerExit(t)

Spec == Init /\ [][Next]_vars

\* Largest number of runs of Walk over the same tree.
MaxRuns == 2

\* Walk is called again once it has returned, with the same mode and the
\* same directories, on the tree as it is: a new walker with an empty cache.
WalkAgain ==
    /\ ~panicked
    /\ phase = "finished"
    /\ Len(previous) + 1 < MaxRuns
    /\ previous' = Append(previous, [calls |-> callbackRels, configs |-> configureRels])
    /\ entryMap' = [k \in {} |-> NewEntry(Main)]
    /\ tasks' = [t \in {Main} |-> Task("idle", Root)]
    /\ sem' = 0
    /\ wg' = 0
    /\ phase' = "start"
    /\ todo' = <<>>
    /\ stack' = <<>>
    /\ configureRels' = <<>>
    /\ callbackRels' = <<>>
    /\ loadCount' = [k \in DOMAIN fs |-> 0]
    /\ loaded' = [k \in DOMAIN fs |-> {}]
    /\ getReturns' = {}
    /\ closeCount' = [k \in DOMAIN fs |-> 0]
    /\ UNCHANGED <<cfgVars, bazelIgnore, dirInfo, readers, fs, rels, mode, variant, panicked>>

NextTwice ==
    \/ MainStart
    \/ MainPrefix
    \/ MainSpawnRoot
    \/ MainWait
    \/ WalkStart
    \/ VisitConfigure
    \/ VisitSubdir
    \/ VisitCallback
    \/ WalkAgain
    \/ \E t \in DOMAIN tasks : CacheLoad(t)
    \/ \E t \in DOMAIN tasks : CacheLoadOrStore(t)
    \/ \E t \in DOMAIN tasks : CacheRunLoader(t)
    \/ \E t \in DOMAIN tasks : CacheClose(t)
    \/ \E t \in DOMAIN tasks : CacheWait(t)
    \/ \E t \in DOMAIN tasks : Release(t)
    \/ \E t \in DOMAIN tasks : Spawn(t)
    \/ \E t \in DOMAIN tasks : WorkerExit(t)

\* Walk run again and again over the same tree.
SpecTwice == Init /\ [][NextTwice]_vars


\* The walk on a tree with a .bazelignore file, after TestExcludeFiles:
\* directories dir2, dir2/a, dir3, dir3/g and e under the repo root.
IgnoreDirs ==
    { Root, <<"dir2">>, <<"dir2", "a">>, <<"dir3">>, <<"dir3", "g">>, <<"e">> }

\* The directory names of that tree in os.ReadDir (sorted) order.
IgnoreNames == <<"a", "dir2", "dir3", "e", "g">>

IgnoreFS ==
    [d \in IgnoreDirs |->
        [readErr |-> FALSE,
         build   |-> NoFile,
         entries |-> DirEntries(SelectSeq(IgnoreNames, LAMBDA n : Append(d, n) \in IgnoreDirs))
                     \o <<Entry("x.go", FALSE)>>]]

\* The .bazelignore files: "dir3/"; "./dir3"; " dir3 "; a comment, a blank
\* line, a glob and "././blah/../dir2/a/x.go"; "dir2/a" and "x.go";
\* "e/../dir3/./"; "dir3/g"; "../dir3"; "dir"; ".".
IgnoreFiles ==
    { << <<"dir3", "">> >>,
      << <<".", "dir3">> >>,
      << <<" ", "dir3", " ">> >>,
      << <<"#", "dir3">>, <<>>, <<"dir2", "*">>,
         <<".", ".", "blah", "..", "dir2", "a", "x.go">> >>,
      << <<"dir2", "a">>, <<"x.go">> >>,
      << <<"e", "..", "dir3", ".", "">> >>,
      << <<"dir3", "g">> >>,
      << <<"..", "dir3">> >>,
      << <<"dir">> >>,
      << <<".">> >> }

\* The calls of Walk on that tree: the whole tree, or two directories of
\* which one lies in dir3.
IgnoreCalls ==
    { [rels |-> <<Root>>, mode |-> "VisitAllUpdateSubdirs"],
      [rels |-> << <<"dir2">>, <<"dir3", "g">> >>, mode |-> "UpdateSubdirs"] }

InitIgnore ==
    /\ fs = IgnoreFS
    /\ bazelIgnore \in IgnoreFiles
    /\ dirInfo = NoDirInfo
    /\ readers = <<>>
    /\ \E call \in IgnoreCalls : rels = call.rels /\ mode = call.mode
    /\ variant \in {1, 2}
    /\ entryMap = [k \in {} |-> NewEntry(Main)]
    /\ tasks = [t \in {Main} |-> Task("idle", Root)]
    /\ sem = 0
    /\ wg = 0
    /\ phase = "start"
    /\ todo = <<>>
    /\ stack = <<>>
    /\ configureRels = <<>>
    /\ callbackRels = <<>>
    /\ loadCount = [k \in DOMAIN fs |-> 0]
    /\ loaded = [k \in DOMAIN fs |-> {}]
    /\ getReturns = {}
    /\ closeCount = [k \in DOMAIN fs |-> 0]
    /\ panicked = FALSE
    /\ heap = <<>>
    /\ walkConfigs = <<>>
    /\ built = <<>>
    /\ fatal = FALSE
    /\ fatalAt = <<>>
    /\ previous = <<>>

SpecIgnore == InitIgnore /\ [][Next]_vars


\* The walk on trees in which one directory holds "# gazelle:exclude ." in
\* its build file, after TestExcludeSelf: the directory is a (with a build
\* file in a/b and in the root), a/b, or the repo root.
ExcludeSelfTrees ==
    { MkFS({<<Root, "build">>, <<<<"a">>, "excludeSelf">>, <<<<"a", "b">>, "build">>}),
      MkFS({<<<<"a", "b">>, "excludeSelf">>, <<<<"a", "b", "c">>, "build">>}),
      MkFS({<<Root, "excludeSelf">>, <<<<"a">>, "build">>}) }

InitExcludeSelf ==
    /\ fs \in ExcludeSelfTrees
    /\ rels \in RelsChoices
    /\ mode \in Modes
    /\ Recursive(mode) /\ Len(rels) > 1 => \A i \in 1..Len(rels) : rels[i] # Root
    /\ variant \in {1, 2}
    /\ entryMap = [k \in {} |-> NewEntry(Main)]
    /\ tasks = [t \in {Main} |-> Task("idle", Root)]
    /\ sem = 0
    /\ wg = 0
    /\ phase = "start"
    /\ todo = <<>>
    /\ stack = <<>>
    /\ configureRels = <<>>
    /\ callbackRels = <<>>
    /\ loadCount = [k \in DOMAIN fs |-> 0]
    /\ loaded = [k \in DOMAIN fs |-> {}]
    /\ getReturns = {}
    /\ closeCount = [k \in DOMAIN fs |-> 0]
    /\ panicked = FALSE
    /\ heap = <<>>
    /\ walkConfigs = <<>>
    /\ built = <<>>
    /\ fatal = FALSE
    /\ fatalAt = <<>>
    /\ previous = <<>>
    /\ bazelIgnore = <<>>
    /\ dirInfo = NoDirInfo
    /\ readers = <<>>

SpecExcludeSelf == InitExcludeSelf /\ [][Next]_vars



\* The Configurer on its own: run on directories in any order that puts a
\* parent before its children, with any of the build files.
InitConfigure ==
    /\ fs = MkFS({})
    /\ rels = <<Root>>
    /\ mode = "UpdateDirs"
    /\ variant = 1
    /\ entryMap = [k \in {} |-> NewEntry(Main)]
    /\ tasks = [t \in {Main} |-> Task("idle", Root)]
    /\ sem = 0
    /\ wg = 0
    /\ phase = "start"
    /\ todo = <<>>
    /\ stack = <<>>
    /\ configureRels = <<>>
    /\ callbackRels = <<>>
    /\ loadCount = [k \in Universe |-> 0]
    /\ loaded = [k \in Universe |-> {}]
    /\ getReturns = {}
    /\ closeCount = [k \in Universe |-> 0]
    /\ panicked = FALSE
    /\ heap = <<>>
    /\ walkConfigs = <<>>
    /\ built = <<>>
    /\ fatal = FALSE
    /\ fatalAt = <<>>
    /\ previous = <<>>
    /\ bazelIgnore = <<>>
    /\ dirInfo = NoDirInfo
    /\ readers = <<>>

NextConfigure ==
    \/ \E rel \in Universe, f \in ConfigureFiles : Configure(rel, f)
    \/ \E rel \in Universe, f \in ConfigureFiles : ConfigureFatal(rel, f)

SpecConfigure == InitConfigure /\ [][NextConfigure]_vars

\* The prefetcher on its own, on trees that are wide or deep: a root with
\* more subdirectories than the semaphore has tokens, and a chain of
\* directories longer than that.
WideNames == <<"s1", "s2", "s3", "s4", "s5", "s6", "s7">>

DeepPath == <<"c1", "c2", "c3", "c4", "c5", "c6", "c7">>

WideDirs == {Root} \cup { <<WideNames[i]>> : i \in 1..Len(WideNames) }

\* The root with the first SemCap of the subdirectories only.
FullDirs == {Root} \cup { <<WideNames[i]>> : i \in 1..SemCap }

NestedDepth == 4

DeepDirs == { SubSeq(DeepPath, 1, i) : i \in 0..Len(DeepPath) }

\* The names in use, in os.ReadDir (sorted) order.
PrefetchNames == DeepPath \o WideNames

\* A tree whose directories all hold what attr says, and one source file.
TreeFS(dirs, attr) ==
    [d \in dirs |->
        [readErr |-> attr = "unreadable",
         build   |-> BuildOf(attr),
         entries |-> (IF BuildOf(attr).kind = "nil" THEN <<>> ELSE <<Entry("BUILD.bazel", FALSE)>>)
                     \o DirEntries(SelectSeq(PrefetchNames, LAMBDA n : Append(d, n) \in dirs))
                     \o <<Entry("x.go", FALSE)>>]]

\* Every directory of the chain, topmost first.
DeepRels == [i \in 1..Len(DeepPath) |-> SubSeq(DeepPath, 1, i)]

\* The first directories of the chain.
NestedDirs == { SubSeq(DeepPath, 1, i) : i \in 0..NestedDepth }

\* A requested directory and its subdirectory, both requested: their
\* goroutines descend the same chain.
NestedRels == <<SubSeq(DeepPath, 1, 1), SubSeq(DeepPath, 1, 2)>>

\* Tree, requested directories, mode and populateCache of each run: a root
\* with as many subdirectories as the semaphore has tokens; a chain of seven
\* directories, walked from the repo root or from its last directory; seven
\* requested directories, each with a build file that does not parse; the
\* first directories of the chain with two nested requested directories.
PrefetchRuns ==
    { [fs |-> TreeFS(FullDirs, "plain"), rels |-> <<Root>>, mode |-> "VisitAllUpdateSubdirs", variant |-> 2],
      [fs |-> TreeFS(DeepDirs, "plain"), rels |-> <<Root>>, mode |-> "UpdateSubdirs", variant |-> 1],
      [fs |-> TreeFS(DeepDirs, "plain"), rels |-> <<Root>>, mode |-> "UpdateSubdirs", variant |-> 2],
      [fs |-> TreeFS(DeepDirs, "plain"), rels |-> <<DeepPath>>, mode |-> "UpdateSubdirs", variant |-> 1],
      [fs |-> TreeFS(DeepDirs, "bad"), rels |-> DeepRels, mode |-> "UpdateSubdirs", variant |-> 1],
      [fs |-> TreeFS(NestedDirs, "plain"), rels |-> NestedRels, mode |-> "UpdateSubdirs", variant |-> 1] }

InitPrefetch ==
    /\ \E run \in PrefetchRuns :
          /\ fs = run.fs
          /\ rels = run.rels
          /\ mode = run.mode
          /\ variant = run.variant
    /\ entryMap = [k \in {} |-> NewEntry(Main)]
    /\ tasks = [t \in {Main} |-> Task("idle", Root)]
    /\ sem = 0
    /\ wg = 0
    /\ phase = "start"
    /\ todo = <<>>
    /\ stack = <<>>
    /\ configureRels = <<>>
    /\ callbackRels = <<>>
    /\ loadCount = [k \in DOMAIN fs |-> 0]
    /\ loaded = [k \in DOMAIN fs |-> {}]
    /\ getReturns = {}
    /\ closeCount = [k \in DOMAIN fs |-> 0]
    /\ panicked = FALSE
    /\ heap = <<>>
    /\ walkConfigs = <<>>
    /\ built = <<>>
    /\ fatal = FALSE
    /\ fatalAt = <<>>
    /\ previous = <<>>
    /\ bazelIgnore = <<>>
    /\ dirInfo = NoDirInfo
    /\ readers = <<>>

\* populateCache() on the root with seven subdirectories, at the moment the
\* semaphore is exhausted: visit("") has loaded the root, released its token
\* and started a goroutine for each of the first SemCap subdirectories;
\* each of them has installed its cache slot and is inside loadDirInfo;
\* main blocks on sem for the seventh subdirectory.
InitSaturated ==
    /\ bazelIgnore = <<>>
    /\ fs = TreeFS(WideDirs, "plain")
    /\ rels = <<Root>>
    /\ mode = "VisitAllUpdateSubdirs"
    /\ variant = 2
    /\ entryMap = [k \in FullDirs |->
                      IF k = Root
                      THEN [done |-> TRUE, info |-> loadDirInfo(Root).info,
                            err |-> loadDirInfo(Root).err, owner |-> Main]
                      ELSE NewEntry(ChildOf(Main, k))]
    /\ tasks = [t \in {Main} \cup { ChildOf(Main, k) : k \in FullDirs \ {Root} } |->
                   IF t = Main
                   THEN [pc |-> "spawn", rel |-> Root, idx |-> SemCap + 1,
                         info |-> loadDirInfo(Root).info, err |-> loadDirInfo(Root).err]
                   ELSE [Task("load", t[2]) EXCEPT !.pc = "load"]]
    /\ sem = SemCap
    /\ wg = SemCap
    /\ phase = "visit2"
    /\ todo = <<>>
    /\ stack = <<>>
    /\ configureRels = <<>>
    /\ callbackRels = <<>>
    /\ loadCount = [k \in WideDirs |-> IF k = Root THEN 1 ELSE 0]
    /\ loaded = [k \in WideDirs |-> IF k = Root THEN {loadDirInfo(Root)} ELSE {}]
    /\ getReturns = {[key |-> Root, info |-> loadDirInfo(Root).info,
                      err |-> loadDirInfo(Root).err]}
    /\ closeCount = [k \in WideDirs |-> IF k = Root THEN 1 ELSE 0]
    /\ panicked = FALSE
    /\ heap = <<>>
    /\ walkConfigs = <<>>
    /\ built = <<>>
    /\ fatal = FALSE
    /\ fatalAt = <<>>
    /\ previous = <<>>
    /\ dirInfo = NoDirInfo
    /\ readers = <<>>

\* The steps of populateCache and of the goroutines it starts.
NextPrefetch ==
    \/ MainStart
    \/ MainPrefix
    \/ MainSpawnRoot
    \/ MainWait
    \/ \E t \in DOMAIN tasks : CacheLoad(t)
    \/ \E t \in DOMAIN tasks : CacheLoadOrStore(t)
    \/ \E t \in DOMAIN tasks : CacheRunLoader(t)
    \/ \E t \in DOMAIN tasks : CacheClose(t)
    \/ \E t \in DOMAIN tasks : CacheWait(t)
    \/ \E t \in DOMAIN tasks : Release(t)
    \/ \E t \in DOMAIN tasks : Spawn(t)
    \/ \E t \in DOMAIN tasks : WorkerExit(t)

\* Every run from its start, and the run on seven subdirectories from the
\* moment the semaphore is exhausted.
SpecPrefetch == (InitPrefetch \/ InitSaturated) /\ [][NextPrefetch]_vars

\* populateCache() on the root with seven subdirectories from its start;
\* InitSaturated is a state of this run.
InitWide ==
    /\ fs = TreeFS(WideDirs, "plain")
    /\ rels = <<Root>>
    /\ mode = "VisitAllUpdateSubdirs"
    /\ variant = 2
    /\ entryMap = [k \in {} |-> NewEntry(Main)]
    /\ tasks = [t \in {Main} |-> Task("idle", Root)]
    /\ sem = 0
    /\ wg = 0
    /\ phase = "start"
    /\ todo = <<>>
    /\ stack = <<>>
    /\ configureRels = <<>>
    /\ callbackRels = <<>>
    /\ loadCount = [k \in DOMAIN fs |-> 0]
    /\ loaded = [k \in DOMAIN fs |-> {}]
    /\ getReturns = {}
    /\ closeCount = [k \in DOMAIN fs |-> 0]
    /\ panicked = FALSE
    /\ heap = <<>>
    /\ walkConfigs = <<>>
    /\ built = <<>>
    /\ fatal = FALSE
    /\ fatalAt = <<>>
    /\ previous = <<>>
    /\ bazelIgnore = <<>>
    /\ dirInfo = NoDirInfo
    /\ readers = <<>>

SpecWide == InitWide /\ [][NextPrefetch]_vars

\* The Go scheduler runs a goroutine that can run: some enabled step is
\* eventually taken.
FairSpecPrefetch == SpecPrefetch /\ WF_vars(NextPrefetch)

---------------------------------------------------------------------------
(* Directory cache: single flight *)

\* C1: for every key the loader is invoked at most once, and exactly once
\* as soon as some cache.get call for the key has returned, however many
\* goroutines call get for the key concurrently or one after the other.
C1_SingleFlight ==
    \A k \in Universe :
        /\ loadCount[k] <= 1
        /\ (\E r \in getReturns : r.key = k) => loadCount[k] = 1
        /\ (\E t \in DOMAIN tasks : tasks[t].rel = k /\ tasks[t].pc \in {"close", "ret"})
              => loadCount[k] = 1

\* Two goroutines race on one key: one ran the loader, the other missed in
\* the optimistic Load and is about to LoadOrStore.
C1_Witness ==
    \E t1, t2 \in DOMAIN tasks :
        /\ t1 # t2
        /\ tasks[t1].rel = tasks[t2].rel
        /\ tasks[t1].pc = "close"
        /\ tasks[t2].pc = "store"
        /\ loadCount[tasks[t1].rel] = 1

\* C2: a cache.get call returns only once the key's slot is resolved, and
\* every get call for a key, by the goroutine that ran the loader and by
\* every other one, returns the (info, err) pair the loader produced.
C2_GetReturnsLoaded ==
    /\ \A r \in getReturns :
          /\ r.key \in DOMAIN entryMap
          /\ entryMap[r.key].done
          /\ loaded[r.key] = {[info |-> r.info, err |-> r.err]}
    /\ \A t \in DOMAIN tasks :
          tasks[t].pc = "ret" =>
              /\ tasks[t].rel \in DOMAIN entryMap
              /\ entryMap[tasks[t].rel].done
              /\ loaded[tasks[t].rel] = {[info |-> tasks[t].info, err |-> tasks[t].err]}

\* Two workers hold the result of get for the same key: one ran the loader,
\* the other waited for it.
C2_Witness ==
    \E t1, t2 \in Workers :
        /\ t1 # t2
        /\ tasks[t1].rel = tasks[t2].rel
        /\ tasks[t1].pc = "ret"
        /\ tasks[t2].pc = "ret"
        /\ entryMap[tasks[t1].rel].owner = t1
        /\ tasks[t1].info = tasks[t2].info
        /\ tasks[t1].info.config # RootWalkConfig

\* C3: a slot is never removed or replaced, only the goroutine that
\* installed it writes it and only while it runs the loader or closes doneC,
\* a resolved slot never changes, and doneC is closed exactly once.
C3_SlotWrittenOnce ==
    [][\A k \in DOMAIN entryMap :
          /\ k \in DOMAIN entryMap'
          /\ entryMap'[k].owner = entryMap[k].owner
          /\ entryMap[k].done => entryMap'[k] = entryMap[k]
          /\ entryMap'[k] # entryMap[k] =>
                /\ tasks[entryMap[k].owner].rel = k
                /\ tasks[entryMap[k].owner].pc \in {"load", "close"}
          /\ closeCount'[k] <= 1
          /\ entryMap'[k].done <=> closeCount'[k] = 1]_vars

\* The walk is over: every directory has a resolved slot, closed once, some
\* written by prefetch workers and read again by the serial driver.
C3_Witness ==
    /\ phase = "finished"
    /\ DOMAIN entryMap = Universe
    /\ \A k \in Universe : entryMap[k].done /\ closeCount[k] = 1
    /\ \E k \in Universe : entryMap[k].owner # Main

\* C4: whenever the loader is about to run for a directory other than the
\* repo root, the slot of its parent exists and is resolved, so getLoaded
\* never panics.
C4_ParentBeforeChild ==
    /\ ~panicked
    /\ \A t \in DOMAIN tasks :
          tasks[t].pc = "load" => ~loadDirInfoPanics(tasks[t].rel)

\* A worker started for a requested directory three levels deep is about to
\* load it; its parent was loaded by the serial prefix loop of main.
C4_Witness ==
    \E t \in Workers :
        /\ tasks[t].pc = "load"
        /\ Len(tasks[t].rel) = 3
        /\ entryMap[Dir(tasks[t].rel)].owner = Main
        /\ entryMap[Dir(tasks[t].rel)].done
        /\ phase = "roots"

---------------------------------------------------------------------------
(* Walk driver: order of the two passes *)

\* The directories the WalkFunc was called for, in call order.
CallbackOrder == [i \in 1..Len(callbackRels) |-> callbackRels[i].rel]

\* The update flags passed to the WalkFunc, in call order.
CallbackUpdates == [i \in 1..Len(callbackRels) |-> callbackRels[i].update]

CallbackSet == { callbackRels[i].rel : i \in 1..Len(callbackRels) }

ConfigureSet == { configureRels[i] : i \in 1..Len(configureRels) }

\* Every directory is called after all the directories beneath it.
Postorder(order) ==
    \A i, j \in 1..Len(order) :
        i # j /\ IsPrefix(order[i], order[j]) => j < i

\* C5: the WalkFunc is called for a directory only after the visit of every
\* subdirectory entered beneath it has returned (no call of visit for the
\* directory or for one beneath it is still running), so the calls are in
\* postorder, and the repo root, when it is called, is called last.
C5_VisitPostorder ==
    /\ Postorder(CallbackOrder)
    /\ \A i \in 1..Len(callbackRels) : \A k \in 1..Len(stack) :
          ~IsPrefix(callbackRels[i].rel, stack[k].rel)
    /\ Root \in CallbackSet =>
          /\ phase = "finished"
          /\ callbackRels[Len(callbackRels)].rel = Root

\* A full walk of a plain tree: a/b/c, a/b, a, d, "".
C5_Witness ==
    /\ phase = "finished"
    /\ CallbackOrder = << <<"a", "b", "c">>, <<"a", "b">>, <<"a">>, <<"d">>, Root >>

\* C6: the configure hook runs exactly once for every directory entered,
\* after the hook of its parent and before any of its subdirectories is
\* entered, so the hooks run in preorder.
C6_ConfigurePreorder ==
    /\ \A i, j \in 1..Len(configureRels) :
          i # j => configureRels[i] # configureRels[j]
    /\ \A j \in 1..Len(configureRels) :
          configureRels[j] # Root =>
              \E i \in 1..(j - 1) : configureRels[i] = Dir(configureRels[j])
    /\ \A i, j, k \in 1..Len(configureRels) :
          i < j /\ j < k /\ IsPrefix(configureRels[i], configureRels[k])
              => IsPrefix(configureRels[i], configureRels[j])
    /\ \A k \in 1..Len(stack) :
          stack[k].rel \in ConfigureSet <=> (stack[k].stage # "get")
    /\ CallbackSet \subseteq ConfigureSet

\* A full walk of a plain tree: "", a, a/b, a/b/c, d.
C6_Witness ==
    /\ phase = "finished"
    /\ configureRels = << Root, <<"a">>, <<"a", "b">>, <<"a", "b", "c">>, <<"d">> >>

---------------------------------------------------------------------------
(* Walk driver: modes *)

\* rel is a requested directory or lies beneath one.
Beneath(d) == \E r \in RelSet : IsPrefix(r, d)

\* The directory's own build file, as found on disk, declares ignore.
DeclaresIgnore(d) ==
    /\ ~fs[d].readErr
    /\ fs[d].build.kind = "file"
    /\ \E i \in 1..Len(fs[d].build.directives) : fs[d].build.directives[i].key = "ignore"

\* The directory's own build file, as found on disk, does not parse.
ParseFails(d) == ~fs[d].readErr /\ fs[d].build.kind = "bad"

Overridden(d) == DeclaresIgnore(d) \/ ParseFails(d)

RECURSIVE TreeConfig(_)
\* The walkConfig of a directory, derived from the tree on disk alone.
TreeConfig(d) ==
    configureForWalk(IF d = Root THEN RootWalkConfig ELSE TreeConfig(Dir(d)), d,
                     IF ~fs[d].readErr /\ fs[d].build.kind = "file"
                     THEN fs[d].build ELSE NoFile)

RECURSIVE InTree(_)
\* The directory can be reached from the repo root: every directory above
\* it is readable and excludes neither itself nor the next one down.
InTree(d) ==
    \/ d = Root
    \/ /\ InTree(Dir(d))
       /\ ~fs[Dir(d)].readErr
       /\ ~isExcluded(TreeConfig(Dir(d)), Dir(d))
       /\ ~isExcluded(TreeConfig(Dir(d)), d)

\* The directory has no build file and is under generation_mode
\* update_only: its files are handed to its parent.
RolledUp(d) ==
    /\ TreeConfig(d).updateOnly
    /\ (fs[d].readErr \/ fs[d].build.kind # "file")

\* The directory can be given a WalkFunc call of its own.
OwnVisit(d) == InTree(d) /\ ~isExcluded(TreeConfig(d), d) /\ ~RolledUp(d)

\* C7: in mode VisitAllUpdateSubdirs the whole tree beneath the repo root
\* is entered, and a directory is visited with update=true exactly when it
\* is a requested directory or lies beneath one and neither declares ignore
\* nor has a build file that fails to parse; every other directory visited,
\* the repo root included, gets update=false.
C7_VisitAllUpdateSubdirs ==
    mode = "VisitAllUpdateSubdirs" =>
        /\ \A i \in 1..Len(callbackRels) :
              callbackRels[i].update <=>
                  (Beneath(callbackRels[i].rel) /\ ~Overridden(callbackRels[i].rel))
        /\ phase = "finished" => ConfigureSet = { d \in Universe : InTree(d) }

\* rels = [a], a declares ignore, d has a broken build file: a/b/c and a/b
\* are updated, a, d and the repo root are not.
C7_Witness ==
    /\ mode = "VisitAllUpdateSubdirs"
    /\ phase = "finished"
    /\ rels = << <<"a">> >>
    /\ DeclaresIgnore(<<"a">>)
    /\ CallbackOrder = << <<"a", "b", "c">>, <<"a", "b">>, <<"a">>, <<"d">>, Root >>
    /\ CallbackUpdates = <<TRUE, TRUE, FALSE, FALSE, FALSE>>

\* C8: in mode VisitAllUpdateDirs the whole tree beneath the repo root is
\* entered, and update=true is given to exactly the requested directories
\* that neither declare ignore nor have a build file that fails to parse:
\* never to a directory beneath them nor to any other directory.
C8_VisitAllUpdateDirs ==
    mode = "VisitAllUpdateDirs" =>
        /\ \A i \in 1..Len(callbackRels) :
              callbackRels[i].update <=>
                  (callbackRels[i].rel \in RelSet /\ ~Overridden(callbackRels[i].rel))
        /\ phase = "finished" => ConfigureSet = { d \in Universe : InTree(d) }

\* rels = [a, a/b], a declares ignore: only a/b is updated.
C8_Witness ==
    /\ mode = "VisitAllUpdateDirs"
    /\ phase = "finished"
    /\ rels = << <<"a">>, <<"a", "b">> >>
    /\ DeclaresIgnore(<<"a">>)
    /\ CallbackOrder = << <<"a", "b", "c">>, <<"a", "b">>, <<"a">>, <<"d">>, Root >>
    /\ CallbackUpdates = <<FALSE, TRUE, FALSE, FALSE, FALSE>>

\* C9 as stated: in mode UpdateDirs the WalkFunc is called for the requested
\* directories and for no other, each with update=true, in postorder.
C9_AsStated ==
    mode = "UpdateDirs" /\ phase = "finished" =>
        /\ CallbackSet = RelSet
        /\ \A i \in 1..Len(callbackRels) : callbackRels[i].update
        /\ Postorder(CallbackOrder)

\* C9: in mode UpdateDirs the WalkFunc is called for no directory but the
\* requested ones, and for each requested directory the walk reaches that
\* is not excluded and not rolled up into its parent; the calls are in
\* postorder, and each has update=true unless the directory declares ignore
\* or its build file fails to parse.
C9_UpdateDirs ==
    mode = "UpdateDirs" =>
        /\ CallbackSet \subseteq RelSet
        /\ phase = "finished" => CallbackSet = { d \in RelSet : OwnVisit(d) }
        /\ \A i \in 1..Len(callbackRels) :
              callbackRels[i].update <=> ~Overridden(callbackRels[i].rel)
        /\ Postorder(CallbackOrder)

\* rels = [a, a/b], a declares ignore: a/b is called with update=true, then
\* a with update=false, and nothing else is called.
C9_Witness ==
    /\ mode = "UpdateDirs"
    /\ phase = "finished"
    /\ DeclaresIgnore(<<"a">>)
    /\ CallbackOrder = << <<"a", "b">>, <<"a">> >>
    /\ CallbackUpdates = <<TRUE, FALSE>>

\* C10 as stated: in mode UpdateSubdirs the WalkFunc is called for exactly
\* the requested directories and every directory beneath them that is not
\* excluded, each with update=true unless it declares ignore or its build
\* file fails to parse.
C10_AsStated ==
    mode = "UpdateSubdirs" /\ phase = "finished" =>
        /\ CallbackSet =
              RelSet \cup { d \in Universe :
                               Beneath(d) /\ InTree(d) /\ ~isExcluded(TreeConfig(d), d) }
        /\ \A i \in 1..Len(callbackRels) :
              callbackRels[i].update <=> ~Overridden(callbackRels[i].rel)

\* C10: in mode UpdateSubdirs the WalkFunc is called for exactly the
\* directories that are requested or lie beneath a requested directory, that
\* the walk reaches, that are not excluded and are not rolled up into their
\* parent, and for nothing outside those subtrees; each call has update=true
\* unless the directory declares ignore or its build file fails to parse.
C10_UpdateSubdirs ==
    mode = "UpdateSubdirs" =>
        /\ \A i \in 1..Len(callbackRels) : Beneath(callbackRels[i].rel)
        /\ phase = "finished" =>
              CallbackSet = { d \in Universe : Beneath(d) /\ OwnVisit(d) }
        /\ \A i \in 1..Len(callbackRels) :
              callbackRels[i].update <=> ~Overridden(callbackRels[i].rel)

\* rels = [a], a is under generation_mode update_only and a/b has a build
\* file: a/b/c is rolled up into a/b, and only a/b and a are called.
C10_Witness ==
    /\ mode = "UpdateSubdirs"
    /\ phase = "finished"
    /\ rels = << <<"a">> >>
    /\ RolledUp(<<"a", "b", "c">>)
    /\ CallbackOrder = << <<"a", "b">>, <<"a">> >>
    /\ CallbackUpdates = <<TRUE, TRUE>>

---------------------------------------------------------------------------
(* Walk driver: the ignore / parse-failure override *)

\* The update value the mode assigns to a directory, overrides aside.
ModeUpdate(d) == IF Recursive(mode) THEN Beneath(d) ELSE d \in RelSet

\* The mode calls the WalkFunc for the directory.
ModeCalls(d) ==
    CASE mode \in {"VisitAllUpdateSubdirs", "VisitAllUpdateDirs"} -> TRUE
      [] mode = "UpdateSubdirs" -> Beneath(d)
      [] OTHER -> d \in RelSet

\* The mode enters the directory.
ModeEnters(d) ==
    CASE mode \in {"VisitAllUpdateSubdirs", "VisitAllUpdateDirs"} -> TRUE
      [] mode = "UpdateSubdirs" -> d \in VisitRels \/ Beneath(d)
      [] OTHER -> d \in VisitRels

---------------------------------------------------------------------------
(* Walk driver: generation_mode roll-up *)

RECURSIVE OwnFiles(_, _)
\* The regular files among the entries of d that d's configuration does not
\* exclude, as paths relative to d.
OwnFiles(d, entries) ==
    IF entries = <<>> THEN <<>>
    ELSE (IF ~Head(entries).isDir /\ ~isExcluded(TreeConfig(d), Join(d, Head(entries).name))
          THEN << <<Head(entries).name>> >> ELSE <<>>)
         \o OwnFiles(d, Tail(entries))

RECURSIVE PrefixedBy(_, _)
PrefixedBy(name, paths) ==
    IF paths = <<>> THEN <<>>
    ELSE << <<name>> \o Head(paths) >> \o PrefixedBy(name, Tail(paths))

RECURSIVE RollUpFiles(_)
RECURSIVE RollUpOfChildren(_, _)
\* The files reported for d: its own, then those of every subdirectory that
\* is entered and rolled up, in directory order, under the subdirectory's name.
RollUpFiles(d) ==
    (IF fs[d].readErr \/ isExcluded(TreeConfig(d), d) THEN <<>> ELSE OwnFiles(d, fs[d].entries))
    \o RollUpOfChildren(d, ChildNames(d))

RollUpOfChildren(d, names) ==
    IF names = <<>> THEN <<>>
    ELSE LET c == Join(d, Head(names)) IN
         (IF InTree(c) /\ ModeEnters(c) /\ RolledUp(c) /\ ~isExcluded(TreeConfig(c), c)
          THEN PrefixedBy(Head(names), RollUpFiles(c)) ELSE <<>>)
         \o RollUpOfChildren(d, Tail(names))

---------------------------------------------------------------------------
(* Directory cache: loader errors *)

\* The errors of loading d that stem from d itself, from the tree on disk.
OwnErr(d) ==
    (IF fs[d].readErr THEN <<"readdir">> ELSE <<>>)
    \o (IF ParseFails(d) THEN <<"parse">> ELSE <<>>)

\* C13: the error of a directory's load is stored in its slot and returned
\* by every get for the key, and it is the directory's own error only: the
\* slot of a sibling or of a directory beneath a failed directory resolves
\* with its own error and its own configuration, and at the end of the walk
\* every directory the walk can reach and the mode enters is loaded.
C13_ErrorsStayLocal ==
    /\ \A k \in DOMAIN entryMap :
          entryMap[k].done =>
              /\ entryMap[k].err = OwnErr(k)
              /\ entryMap[k].info.config = TreeConfig(k)
    /\ \A r \in getReturns : r.err = OwnErr(r.key)
    /\ \A t \in DOMAIN tasks :
          tasks[t].pc = "ret" => tasks[t].err = OwnErr(tasks[t].rel)
    /\ phase = "finished" =>
          \A d \in Universe :
              InTree(d) /\ ModeEnters(d) => d \in DOMAIN entryMap /\ entryMap[d].done

\* The build file of a does not parse: a prefetch worker stored the error,
\* the driver got it again from the slot, d was loaded by a worker and a/b
\* by the driver, both without error.
C13_Witness ==
    /\ phase = "visiting"
    /\ ParseFails(<<"a">>)
    /\ tasks[Main].rel = <<"a", "b">>
    /\ tasks[Main].pc = "ret"
    /\ tasks[Main].err = NoError
    /\ entryMap[<<"a">>].err = <<"parse">>
    /\ entryMap[<<"a">>].owner # Main
    /\ entryMap[<<"a", "b">>].owner = Main
    /\ <<"d">> \in DOMAIN entryMap
    /\ entryMap[<<"d">>].owner # Main
    /\ entryMap[<<"d">>].err = NoError
    /\ [key |-> <<"a">>, info |-> entryMap[<<"a">>].info, err |-> <<"parse">>] \in getReturns

---------------------------------------------------------------------------
(* Configurer: inheritance *)

\* The build file has a directive with the key.
HasDirective(f, key) ==
    f.kind # "nil" /\ \E i \in 1..Len(f.directives) : f.directives[i].key = key

\* C14: the walkConfig Configure publishes for a directory has ignore set
\* if and only if the directory's own build file has an ignore directive,
\* whatever the ignore flag of the parent's walkConfig is.
C14_IgnoreNotInherited ==
    \A d \in DOMAIN walkConfigs :
        /\ walkConfigs[d].ignore <=> HasDirective(built[d].file, "ignore")
        /\ built[d].value.ignore = walkConfigs[d].ignore

\* The repo root declares ignore, a does not and is not ignored, a/b does.
C14_Witness ==
    /\ DOMAIN walkConfigs = {Root, <<"a">>, <<"a", "b">>}
    /\ walkConfigs[Root].ignore
    /\ ~walkConfigs[<<"a">>].ignore
    /\ walkConfigs[<<"a", "b">>].ignore

\* The build file's last generation_mode directive asks for update_only.
LastModeIsUpdateOnly(f) ==
    LET idx == { i \in 1..Len(f.directives) : f.directives[i].key = "generation_mode" }
        m   == CHOOSE i \in idx : \A j \in idx : j <= i
    IN  TrimSpace(f.directives[m].value) = <<"update_only">>

---------------------------------------------------------------------------
(* Configurer: aliasing of the pattern slices *)

\* C16: a walkConfig never changes once Configure has published it: its
\* excludes and follow sequences and its updateOnly and ignore flags stay
\* what they were, whichever directories are configured afterwards.
C16_Immutable ==
    \A d \in DOMAIN walkConfigs :
        ConfigValue(heap, walkConfigs[d]) = built[d].value

---------------------------------------------------------------------------
(* Configurer: unknown generation_mode *)

\* A generation_mode directive whose trimmed value is not a known mode.
IsUnknownMode(d) ==
    /\ d.key = "generation_mode"
    /\ TrimSpace(d.value) \notin { <<"update_only">>, <<"create_and_update">> }

HasUnknownMode(f) ==
    f.kind # "nil" /\ \E i \in 1..Len(f.directives) : IsUnknownMode(f.directives[i])

RECURSIVE BeforeUnknownMode(_)
\* The directives of a file that precede its first unknown generation_mode.
BeforeUnknownMode(ds) ==
    IF ds = <<>> \/ IsUnknownMode(Head(ds)) THEN <<>>
    ELSE <<Head(ds)>> \o BeforeUnknownMode(Tail(ds))

\* C17: an unknown generation_mode value ends the run at once: no directive
\* after it is applied (the copy and the heap are what the directives before
\* it made them), no configuration is published for the directory or for a
\* file with such a directive, and once the run has ended nothing more is
\* configured or visited.
C17_UnknownModeFatal ==
    [][/\ ~fatal
       /\ \A d \in DOMAIN built' : ~HasUnknownMode(built'[d].file)
       /\ fatal' =>
             LET fa  == fatalAt'[1]
                 res == ConfigureLoop([heap |-> heap,
                                       wc |-> CopyWalkConfig(ParentWalkConfig(fa.rel)),
                                       log |-> <<>>, fatal |-> FALSE],
                                      fa.rel, BeforeUnknownMode(fa.file.directives))
             IN  /\ HasUnknownMode(fa.file)
                 /\ heap' = res.heap
                 /\ fa.wc = ConfigValue(res.heap, res.wc)
                 /\ fa.rel \notin DOMAIN walkConfigs'
                 /\ UNCHANGED <<walkConfigs, built, walkVars, previous, bazelIgnore, dirInfo, readers>>]_vars

\* The run ended in a, whose file has exclude x, an unknown generation_mode
\* and then ignore: the exclude was applied, the ignore was not.
C17_Witness ==
    /\ fatal
    /\ fatalAt[1].rel = <<"a">>
    /\ HasDirective(fatalAt[1].file, "ignore")
    /\ ~fatalAt[1].wc.ignore
    /\ fatalAt[1].wc.excludes = << <<"a", "x">> >>
    /\ DOMAIN walkConfigs = {Root}

---------------------------------------------------------------------------
(* Configurer: directive-argument errors *)

\* A glob the matcher rejects: it has a character class that is not closed.
MalformedGlob(pattern) == \E i \in 1..Len(pattern) : pattern[i] = "["

\* An exclude or follow directive of rel whose joined pattern is malformed.
BadGlobDirective(rel, d) ==
    d.key \in {"exclude", "follow"} /\ MalformedGlob(JoinValue(rel, d.value))

\* An ignore directive that carries an argument.
IgnoreWithArgument(d) == d.key = "ignore" /\ d.value # <<>>

DirectivesOf(f) == IF f.kind = "nil" THEN <<>> ELSE f.directives

RECURSIVE PatternsOf(_, _, _)
\* The patterns of the directives ds with the given key, joined to rel.
PatternsOf(rel, ds, key) ==
    IF ds = <<>> THEN <<>>
    ELSE (IF Head(ds).key = key THEN <<JoinValue(rel, Head(ds).value)>> ELSE <<>>)
         \o PatternsOf(rel, Tail(ds), key)

RECURSIVE KeysOf(_)
KeysOf(ds) == IF ds = <<>> THEN <<>> ELSE <<Head(ds).key>> \o KeysOf(Tail(ds))

\* The configuration of rel when exactly the directives kept, all of them
\* well-formed, take effect on the parent's values.
ConfigOfKept(parent, rel, f, kept) ==
    [updateOnly |-> IF HasDirective(f, "generation_mode")
                    THEN LastModeIsUpdateOnly(f) ELSE parent.updateOnly,
     excludes   |-> parent.excludes \o PatternsOf(rel, kept, "exclude"),
     ignore     |-> \E i \in 1..Len(kept) : kept[i].key = "ignore",
     follow     |-> parent.follow \o PatternsOf(rel, kept, "follow")]

\* The claim as worded: an exclude or follow with a bad glob and an ignore
\* with an argument are logged and have no effect on the configuration; the
\* other directives of the file are applied.
C18_AsStated ==
    \A d \in DOMAIN built :
        LET b    == built[d]
            ds   == DirectivesOf(b.file)
            bad  == SelectSeq(ds, LAMBDA x : BadGlobDirective(d, x) \/ IgnoreWithArgument(x))
            kept == SelectSeq(ds, LAMBDA x : ~(BadGlobDirective(d, x) \/ IgnoreWithArgument(x)))
        IN  /\ b.log = KeysOf(bad)
            /\ b.value = ConfigOfKept(b.parent, d, b.file, kept)

\* C18: an exclude or follow directive with a bad glob is logged and has no
\* effect on the configuration; an ignore directive with an argument is
\* logged and still sets ignore; every other directive of the file is
\* applied, before or after the logged ones, and the configuration is
\* published.
C18_ArgumentErrorsLocal ==
    \A d \in DOMAIN built :
        LET b    == built[d]
            ds   == DirectivesOf(b.file)
            bad  == SelectSeq(ds, LAMBDA x : BadGlobDirective(d, x) \/ IgnoreWithArgument(x))
            kept == SelectSeq(ds, LAMBDA x : ~BadGlobDirective(d, x))
        IN  /\ b.log = KeysOf(bad)
            /\ b.value = ConfigOfKept(b.parent, d, b.file, kept)

\* a is configured from follow "[", ignore x, exclude x below a root that
\* excludes x: two messages, no follow pattern, ignore set, a/x excluded.
C18_Witness ==
    /\ <<"a">> \in DOMAIN built
    /\ built[<<"a">>].log = <<"follow", "ignore">>
    /\ built[<<"a">>].value =
          [updateOnly |-> FALSE, excludes |-> << <<"x">>, <<"a", "x">> >>,
           ignore |-> TRUE, follow |-> <<>>]

---------------------------------------------------------------------------
(* Parallel prefetcher: the semaphore *)

\* The goroutines of the prefetcher that are inside visit: the workers, and
\* main while it runs visit("") itself.
Visitors == { t \in DOMAIN tasks : InVisit(t) }

\* The visitors whose loadDirInfo call has started and not returned.
LoadsInFlight == { t \in Visitors : tasks[t].pc = "load" }

\* The visitors that hold a token of the semaphore: inside cache.get or
\* just returned from it.
TokenHolders == { t \in Visitors : tasks[t].pc \in {"get", "store", "wait", "load", "close", "ret"} }

\* C19: at every moment of populateCache at most SemCap loadDirInfo calls
\* of the prefetcher are in flight: every visitor inside cache.get holds a
\* token of the semaphore, and the semaphore never holds more than SemCap.
C19_BoundedParallelism ==
    /\ Cardinality(LoadsInFlight) <= SemCap
    /\ Cardinality(TokenHolders) = sem
    /\ sem <= SemCap

\* Seven goroutines have been started for the seven subdirectories of the
\* root; one of the first six has given its token back, the seventh took it,
\* and SemCap loads are in flight again, the seventh subdirectory's among
\* them.
C19_Witness ==
    /\ DOMAIN fs = WideDirs
    /\ Cardinality(Workers) = Len(WideNames)
    /\ Cardinality(LoadsInFlight) = SemCap
    /\ \E t \in LoadsInFlight : tasks[t].rel = <<WideNames[Len(WideNames)]>>

---------------------------------------------------------------------------
(* Parallel prefetcher: termination *)

\* populateCache has returned.
PrefetchDone == phase = "walk"

\* A goroutine that cannot take a step: it waits for a token of the
\* semaphore, for the channel of a cache slot or, in wg.Wait, for the
\* goroutines it started; or it has ended.
Blocked(t) ==
    LET me == tasks[t] IN
    \/ me.pc = "spawn" /\ ~semAcquire
    \/ me.pc = "wait" /\ ~doneClosed(me.rel)
    \/ me.pc = "exited"
    \/ /\ t = Main
       /\ \/ phase = "roots" /\ me.idx <= Len(rels) /\ ~semAcquire
          \/ phase = "roots" /\ me.idx > Len(rels) /\ wg # 0
          \/ phase = "visit2" /\ me.pc = "exit" /\ wg # 0

\* The largest number of steps a goroutine at pc still takes by itself.
pcRank(pc) ==
    CASE pc = "get"   -> 7
      [] pc = "store" -> 6
      [] pc = "load"  -> 5
      [] pc = "close" -> 4
      [] pc = "wait"  -> 4
      [] pc = "ret"   -> 3
      [] pc = "spawn" -> 2
      [] pc = "exit"  -> 1
      [] OTHER        -> 0

PhaseRank ==
    CASE phase = "start"  -> 3 + Len(PrefixList(rels))
      [] phase = "prefix" -> 2
      [] phase = "visit2" -> 2
      [] phase = "roots"  -> 1
      [] OTHER            -> 0

\* The step is one more step of the goroutines that run: none of them
\* moved back and one of them moved on.
TaskProgress ==
    /\ DOMAIN tasks' = DOMAIN tasks
    /\ \A t \in DOMAIN tasks :
          tasks'[t].pc = tasks[t].pc \/ pcRank(tasks'[t].pc) < pcRank(tasks[t].pc)
    /\ \E t \in DOMAIN tasks : tasks'[t].pc # tasks[t].pc

\* The step lowers, in lexicographic order, the work populateCache has
\* left: the phases of main, the prefixes main still loads, the goroutines
\* not yet started (no run starts more than one per requested directory
\* and directory of the tree) and the steps left to those that run.
Progress ==
    \/ PhaseRank' < PhaseRank
    \/ PhaseRank' = PhaseRank /\ Len(todo') < Len(todo)
    \/ /\ PhaseRank' = PhaseRank /\ todo' = todo
       /\ Cardinality(DOMAIN tasks') > Cardinality(DOMAIN tasks)
       /\ Cardinality(DOMAIN tasks') <= 1 + Len(rels) * Cardinality(DOMAIN fs)
    \/ PhaseRank' = PhaseRank /\ todo' = todo /\ TaskProgress

\* C20: populateCache terminates under every fair interleaving, on trees
\* with a chain deeper than the semaphore's capacity, with more
\* subdirectories than that and with more requested directories than that:
\* every step lowers the work left, which cannot go on for ever, and leaves
\* a state in which, unless populateCache has returned, no goroutine has
\* panicked and some goroutine can take a step; so the steps that fairness
\* forces end, and they end with populateCache returned, every goroutine
\* ended and every token back.
C20_DeadlockFree ==
    [][/\ Progress
       /\ IF PrefetchDone'
          THEN sem' = 0 /\ wg' = 0 /\ \A t \in Workers' : tasks'[t].pc = "exited"
          ELSE ~panicked' /\ \E t \in DOMAIN tasks' : ~Blocked(t)']_vars

\* populateCache has returned after it loaded the root and its seven
\* subdirectories.
C20_Witness ==
    /\ PrefetchDone
    /\ DOMAIN fs = WideDirs
    /\ \A k \in WideDirs : loadCount[k] = 1 /\ closeCount[k] = 1
    /\ Cardinality(Workers) = Len(WideNames)

---------------------------------------------------------------------------
(* Parallel prefetcher: join *)

\* populateCache has returned (or was not called, in the modes that do not
\* recurse).
AfterPrefetch == phase \in {"walk", "visiting", "finished"}

\* The goroutines populateCache started that have not yet run wg.Done().
Alive == { t \in Workers : tasks[t].pc # "exited" }

\* C21: the WaitGroup counts the goroutines started and not yet ended, a
\* goroutine that may still start another being one of them; so when
\* populateCache has returned every goroutine it started, directly or
\* not, has ended, none can be started any more, every token is back, and
\* every cache slot installed during the prefetch is resolved; the slots
\* the workers installed stay resolved during the walk.
C21_AllJoined ==
    /\ wg = Cardinality(Alive)
    /\ \A t \in Workers : tasks[t].pc = "spawn" => wg > 0 /\ ~AfterPrefetch
    /\ AfterPrefetch =>
          /\ Alive = {}
          /\ sem = 0
          /\ \A k \in DOMAIN entryMap : entryMap[k].owner # Main => entryMap[k].done
    /\ phase = "walk" => \A k \in DOMAIN entryMap : entryMap[k].done

\* populateCache has returned after a worker started for a requested
\* directory started the worker of a directory beneath it, which started
\* another; all three have ended and left resolved slots.
C21_Witness ==
    /\ phase = "walk"
    /\ Cardinality(Workers) >= 3
    /\ \E t \in Workers : Len(t[2]) = 3 /\ entryMap[t[2]].owner = t /\ entryMap[t[2]].done
    /\ Alive = {}
---------------------------------------------------------------------------
(* Parallel prefetcher: excluded subtrees *)

\* The resolved configuration of the directory's parent excludes it.
ExcludedByParent(d) == d # Root /\ isExcludedDir(TreeConfig(Dir(d)), d)

\* The directory is excluded by its parent's configuration or lies beneath
\* a directory that is.
UnderExcluded(d) == \E i \in 1..Len(d) : ExcludedByParent(SubSeq(d, 1, i))

\* The directories loadDirInfo has run for while populateCache runs.
Prefetched == IF AfterPrefetch THEN {} ELSE { k \in DOMAIN fs : loadCount[k] > 0 }

\* C22: populateCache runs loadDirInfo for no directory that the resolved
\* configuration of its parent excludes and for none beneath such a
\* directory, whatever the requested directories are, and only for
\* directories that the driver's visiting policy enters.
C22_SkipsExcluded ==
    \A k \in Prefetched : ~UnderExcluded(k) /\ ModeEnters(k)
---------------------------------------------------------------------------
(* Prefetching has no semantic effect *)

RECURSIVE SerialLoad(_)
\* What loadDirInfo returns for rel when the directories from the repo root
\* down to rel are loaded one after the other, each with the configuration
\* its parent's load produced.
SerialLoad(rel) ==
    LET read    == ReadDir(rel)
        file    == loadBuildFile(rel, read)
        wc      == configureForWalk(IF rel = Root THEN RootWalkConfig
                                    ELSE SerialLoad(Dir(rel)).info.config, rel, file)
        entries == IF isExcludedDir(wc, rel) THEN <<>> ELSE read
    IN  [info |-> [subdirs      |-> SelectNames(wc, rel, entries, TRUE),
                   regularFiles |-> SelectNames(wc, rel, entries, FALSE),
                   file         |-> file,
                   config       |-> wc],
         err  |-> ReadDirErr(rel) \o loadBuildFileErr(rel, read)]

RECURSIVE SerialVisit(_, _)
RECURSIVE SerialSubdirs(_, _, _, _)
\* The loop of visit over the subdirectories of rel from the i-th on, on
\* serial loads: acc holds the WalkFunc calls and configure calls made and
\* the files collected so far.
SerialSubdirs(rel, should, i, acc) ==
    LET subdirs == SerialLoad(rel).info.subdirs IN
    IF i > Len(subdirs) THEN acc
    ELSE IF ~shouldVisit(Join(rel, subdirs[i]), should)
         THEN SerialSubdirs(rel, should, i + 1, acc)
         ELSE LET r == SerialVisit(Join(rel, subdirs[i]), should) IN
              SerialSubdirs(rel, should, i + 1,
                  [calls   |-> acc.calls \o r.calls,
                   configs |-> acc.configs \o r.configs,
                   files   |-> acc.files \o (IF r.merge THEN PrefixNames(subdirs[i], r.files)
                                             ELSE <<>>)])

\* visit(rel, updateParent) of the serial driver on serial loads: the
\* WalkFunc calls and the configure calls it makes, in order, and what it
\* returns to its caller.
SerialVisit(rel, updateParent) ==
    LET res    == SerialLoad(rel)
        should == shouldUpdate(rel, updateParent)
    IN  IF isExcluded(res.info.config, rel)
        THEN [calls |-> <<>>, configs |-> <<rel>>, files |-> <<>>, merge |-> FALSE]
        ELSE LET sub    == SerialSubdirs(rel, should, 1,
                               [calls |-> <<>>, configs |-> <<rel>>,
                                files |-> AsPaths(res.info.regularFiles)])
                 rollup == collectionOnly(res.info)
             IN  [calls   |-> sub.calls \o
                              (IF ~rollup /\ shouldCall(rel, updateParent)
                               THEN <<CallRecord(rel, ParseFailed(res.err), res.info, should,
                                                 sub.files)>>
                               ELSE <<>>),
                  configs |-> sub.configs,
                  files   |-> sub.files,
                  merge   |-> rollup]

\* The walk without populateCache: Walk's w.visit(c, "", false).
SerialWalk == SerialVisit(Root, FALSE)

---------------------------------------------------------------------------
(* Idempotence of the walk *)

---------------------------------------------------------------------------
(* The flat ignore file *)

\* The paths of the tree the lines of .bazelignore name: every line that is
\* not blank, not a comment and not a glob, without white space, empty
\* segments, "." segments and "x/.." pairs. A line that cleans to "." names
\* the repo root itself, whose path in the walk is "", and no path of the
\* tree.
NamedByIgnoreFile ==
    { Clean(SelectSeq(bazelIgnore[i], LAMBDA x : x \notin {"", " "})) :
        i \in { j \in 1..Len(bazelIgnore) :
                  LET l == SelectSeq(bazelIgnore[j], LAMBDA x : x # " ") IN
                  l # <<>> /\ l[1] # "#" /\ ~ContainsGlob(l) } } \ {Root}

\* An entry covers its own path and every path beneath it.
Covered(p) == \E e \in NamedByIgnoreFile : IsPrefix(e, p)

\* The directories and the files on disk.
DiskDirs == DOMAIN fs

DiskFiles ==
    UNION { { Append(d, fs[d].entries[i].name) :
                i \in { j \in 1..Len(fs[d].entries) : ~fs[d].entries[j].isDir } } :
            d \in DOMAIN fs }

\* The directories and files the walk has reported to the WalkFunc.
ReportedDirs ==
    { callbackRels[i].rel : i \in 1..Len(callbackRels) } \cup
    UNION { { Append(callbackRels[i].rel, callbackRels[i].subdirs[k]) :
                k \in 1..Len(callbackRels[i].subdirs) } : i \in 1..Len(callbackRels) }

ReportedFiles ==
    UNION { { callbackRels[i].rel \o callbackRels[i].regularFiles[k] :
                k \in 1..Len(callbackRels[i].regularFiles) } : i \in 1..Len(callbackRels) }
\* The directories the call of Walk asks about: all of them, or the
\* requested ones and the ones beneath them.
AskedFor(d) ==
    \/ mode \in {"VisitAllUpdateSubdirs", "VisitAllUpdateDirs"}
    \/ \E i \in 1..Len(rels) : IsPrefix(rels[i], d)

\* C25: a directory or file the walk reports is neither named by a line of
\* .bazelignore nor beneath a directory one names, where a line written
\* with "./", a trailing "/" or other redundant "." and ".." segments names
\* its cleaned path; and nothing else is removed: when the walk is over
\* the WalkFunc was called for every directory asked for that no line
\* covers, with all of its subdirectories and regular files that no line
\* covers.
C25_FlatIgnoreFile ==
    /\ \A p \in ReportedDirs \cup ReportedFiles : ~Covered(p)
    /\ phase = "finished" =>
          /\ CallbackSet = { d \in DiskDirs : AskedFor(d) /\ ~Covered(d) }
          /\ \A i \in 1..Len(callbackRels) :
                LET c == callbackRels[i] IN
                /\ { Append(c.rel, c.subdirs[k]) : k \in 1..Len(c.subdirs) }
                      = { d \in DiskDirs : d # Root /\ Dir(d) = c.rel /\ ~Covered(d) }
                /\ { c.rel \o c.regularFiles[k] : k \in 1..Len(c.regularFiles) }
                      = { f \in DiskFiles : Dir(f) = c.rel /\ ~Covered(f) }

\* A finished walk of the whole tree under a .bazelignore whose line names
\* dir3 with redundant segments: dir3 and dir3/g were not reported, the
\* siblings dir2 and e and the file x.go of the root were.
C25_Witness ==
    /\ phase = "finished"
    /\ mode = "VisitAllUpdateSubdirs"
    /\ \E i \in 1..Len(bazelIgnore) :
          /\ bazelIgnore[i] # <<"dir3">>
          /\ Len(bazelIgnore[i]) > 1
          /\ <<"dir3">> \in NamedByIgnoreFile
    /\ DiskDirs \ ReportedDirs = { <<"dir3">>, <<"dir3", "g">> }
    /\ <<"x.go">> \in ReportedFiles
    /\ <<"dir3", "x.go">> \notin ReportedFiles
    /\ <<"dir3", "x.go">> \in DiskFiles
---------------------------------------------------------------------------
(* The directory that excludes itself *)

\* The directory's build file holds "# gazelle:exclude .".
DeclaresExcludeSelf(d) ==
    /\ ~fs[d].readErr
    /\ fs[d].build.kind = "file"
    /\ \E i \in 1..Len(fs[d].build.directives) :
          fs[d].build.directives[i] = Directive("exclude", <<".">>)

\* The directory, or a directory above it, excludes itself.
UnderExcludeSelf(d) == \E e \in Universe : IsPrefix(e, d) /\ DeclaresExcludeSelf(e)

\* C26: the WalkFunc is called neither for a directory whose build file
\* holds "# gazelle:exclude ." nor for a directory beneath it, with or
\* without a build file of its own; and when the walk is over it was
\* called for every other directory the mode calls it for.
C26_ExcludeSelf ==
    /\ \A i \in 1..Len(callbackRels) : ~UnderExcludeSelf(callbackRels[i].rel)
    /\ phase = "finished" =>
          CallbackSet = { d \in Universe : ModeCalls(d) /\ ~UnderExcludeSelf(d) }
---------------------------------------------------------------------------
(* Published DirInfo and its readers *)

\* C27: the three sequences of a published DirInfo have capacity equal to
\* length; whatever its readers append to the slices they hold, the
\* sequences of the entry in the cache are the ones loadDirInfo returned,
\* and every reader's sequences are the ones it got plus what it appended
\* itself.
C27_PublishedUnchanged ==
    dirInfo.pc = "published" =>
        /\ \A f \in Fields : dirInfo.slices[f].cap = dirInfo.slices[f].len
        /\ \A f \in Fields : Elems(heap, dirInfo.slices[f]) = dirInfo.returned[f]
        /\ \A r \in ReaderIds, f \in Fields :
              readers[r].got => Elems(heap, readers[r].slices[f]) = readers[r].expect[f]
---------------------------------------------------------------------------
(* Directory cache: getLoaded *)

\* The loader runs for the key in this step (and calls getLoaded for the
\* key's parent).
LoaderRuns(k) == loadCount'[k] # loadCount[k]

\* C28: getLoaded, called by the loader of a directory for the directory's
\* parent, does not wait for the parent's slot: the loader's step is taken
\* with the slot missing, pending or resolved. It panics exactly when the
\* slot is missing or pending, otherwise the loader goes on with the info
\* stored in the slot; and no slot is installed, and the parent's slot is
\* not changed, by the call.
C28_GetLoaded ==
    [][\A k \in CacheKeys \ {Root} :
            LoaderRuns(k) =>
                LET p == Dir(k)
                    resolved == p \in DOMAIN entryMap /\ entryMap[p].done
                IN  /\ panicked' <=> ~resolved
                    /\ DOMAIN entryMap' = DOMAIN entryMap
                    /\ p \in DOMAIN entryMap => entryMap'[p] = entryMap[p]
                    /\ resolved =>
                          entryMap'[k].info.config =
                              configureForWalk(entryMap[p].info.config, k,
                                               loadBuildFile(k, ReadDir(k)))]_vars

\* getLoaded has panicked on a pending slot: the loader of a/b ran while
\* the slot of a was installed but not yet resolved.
C28_Witness ==
    /\ panicked
    /\ loadCount[<<"a", "b">>] = 1
    /\ DOMAIN entryMap = CacheKeys
    /\ ~entryMap[<<"a">>].done
    /\ entryMap[Root].done
---------------------------------------------------------------------------
(* Directory cache: racing calls of get *)

\* The goroutines inside get for the key at one of the given points.
GetAt(k, pcs) == { t \in DOMAIN tasks : tasks[t].rel = k /\ tasks[t].pc \in pcs }

\* C29: of the get calls racing for a key, at most one runs the loader, and
\* it is the one whose slot is in the map; every other call that got past
\* the map finds that slot there and waits on it, and the slot is resolved
\* or its installer is still at work on it. A call that loses LoadOrStore
\* leaves the map as it is, a call that wins installs a pending slot of its
\* own for a key that had none.
C29_OneWinner ==
    /\ [](\A k \in CacheKeys :
            /\ Cardinality(GetAt(k, {"load", "close"})) <= 1
            /\ loadCount[k] <= 1
            /\ \A t \in GetAt(k, {"load", "close"}) :
                  /\ k \in DOMAIN entryMap
                  /\ entryMap[k].owner = t
                  /\ ~entryMap[k].done
            /\ \A t \in GetAt(k, {"wait"}) :
                  /\ k \in DOMAIN entryMap
                  /\ \/ entryMap[k].done
                     \/ /\ entryMap[k].owner # t
                        /\ entryMap[k].owner \in GetAt(k, {"load", "close"}))
    /\ [][\A t \in DOMAIN tasks :
            tasks[t].pc = "store" /\ tasks'[t].pc # "store" =>
                LET k == tasks[t].rel IN
                IF k \in DOMAIN entryMap
                THEN tasks'[t].pc = "wait" /\ entryMap' = entryMap
                ELSE /\ tasks'[t].pc = "load"
                     /\ DOMAIN entryMap' = DOMAIN entryMap \cup {k}
                     /\ entryMap'[k] = NewEntry(t)
                     /\ \A j \in DOMAIN entryMap : entryMap'[j] = entryMap[j]]_vars

\* Three calls race for the repo root, none of which found a slot in the
\* optimistic Load: one won and runs the loader, one lost and waits on the
\* winner's slot, one is about to lose.
C29_Witness ==
    \E t1, t2, t3 \in Callers :
        /\ tasks[t1].rel = Root /\ tasks[t2].rel = Root /\ tasks[t3].rel = Root
        /\ tasks[t1].pc = "load"
        /\ tasks[t2].pc = "wait"
        /\ tasks[t3].pc = "store"
        /\ entryMap[Root] = NewEntry(t1)
---------------------------------------------------------------------------
(* Prefetcher: the directory prefixes *)

\* The repo root and the proper ancestors of the requested directories.
RequestedAncestors ==
    { p \in Universe :
        p = Root \/ \E i \in 1..Len(rels) : p # rels[i] /\ IsPrefix(p, rels[i]) }

\* C30: in populateCache(rels), once the first goroutine can be started the
\* repo root and every proper ancestor of every requested directory has a
\* resolved slot that the main goroutine loaded; and while the prefixes are
\* being loaded no goroutine has been started, only the main goroutine
\* loads, one directory at a time, and a directory only after its parent's
\* slot is resolved.
C30_PrefixesFirst ==
    variant = 1 =>
        /\ phase = "roots" \/ Workers # {} =>
              \A p \in RequestedAncestors :
                  /\ p \in DOMAIN entryMap
                  /\ entryMap[p].done
                  /\ entryMap[p].owner = Main
                  /\ loadCount[p] = 1
        /\ phase = "prefix" =>
              /\ Workers = {}
              /\ DOMAIN entryMap \subseteq RequestedAncestors
              /\ Cardinality({ k \in DOMAIN entryMap : ~entryMap[k].done }) <= 1
              /\ \A k \in DOMAIN entryMap :
                    /\ entryMap[k].owner = Main
                    /\ k # Root => Dir(k) \in DOMAIN entryMap /\ entryMap[Dir(k)].done

\* populateCache(rels) for a/b/c and a second directory has started its
\* first goroutine, which has not reached the cache yet: the slots of the
\* root, a and a/b are there, resolved, loaded by the main goroutine.
C30_Witness ==
    /\ variant = 1
    /\ phase = "roots"
    /\ Len(rels) = 2
    /\ <<"a", "b", "c">> \in RelSet
    /\ Cardinality(Workers) = 1
    /\ \A t \in Workers : tasks[t].pc = "get"
    /\ DOMAIN entryMap = {Root, <<"a">>, <<"a", "b">>}
    /\ \A k \in DOMAIN entryMap : entryMap[k].done /\ entryMap[k].owner = Main
---------------------------------------------------------------------------
(* Parallel prefetcher: the semaphore protocol of a worker *)

\* The visitor is past its release: it starts goroutines for the
\* subdirectories, or its visit has returned.
Released(task) == task.pc \in {"spawn", "exit", "exited"}

\* The visitor gives its token back in this step.
Releases(t) == t \in Visitors /\ tasks[t].pc = "ret" /\ tasks'[t].pc # "ret"

\* C31: the tokens out of the semaphore are held by the visitors that are
\* inside cache.get or have just returned from it, one each, so a visitor
\* that starts goroutines, or waits for a token to start one, holds none.
\* A goroutine is started only together with a token taken for it and
\* starts in cache.get; a visitor gives its token back in the step after
\* cache.get returned, whether or not the load failed, and after a failed
\* load it starts nothing; a visitor that gave its token back never holds
\* one again; and the semaphore changes in no other step.
C31_SemaphoreProtocol ==
    /\ [](sem = Cardinality(TokenHolders))
    /\ [][/\ \A t \in DOMAIN tasks' \ DOMAIN tasks :
                /\ sem' = sem + 1
                /\ wg' = wg + 1
                /\ tasks'[t].pc = "get"
          /\ \A t \in DOMAIN tasks :
                /\ Releases(t) =>
                      /\ sem' = sem - 1
                      /\ Released(tasks'[t])
                      /\ tasks[t].err # NoError => tasks'[t].pc = "exit"
                /\ t \in Workers /\ Released(tasks[t]) => Released(tasks'[t])
          /\ sem' > sem => \/ DOMAIN tasks' # DOMAIN tasks
                           \/ phase = "start" /\ tasks'[Main].pc = "get"
          /\ sem' < sem => \E t \in DOMAIN tasks : Releases(t)]_vars

\* The load of a directory failed: its worker has given its token back and
\* ended without starting a goroutine, while another worker, started by the
\* same visitor, holds the one token that is out.
C31_Witness ==
    \E t, u \in Workers :
        /\ tasks[t].err # NoError
        /\ tasks[t].pc = "exited"
        /\ tasks[u].pc = "load"
        /\ sem = 1
        /\ TokenHolders = {u}
---------------------------------------------------------------------------
(* Parallel prefetcher: suspension points *)

\* The goroutine is suspended: inside populateCache it has not ended and
\* cannot take its next step.
Suspended(t) == ~AfterPrefetch /\ ~panicked /\ tasks[t].pc # "exited" /\ Blocked(t)

\* The goroutine waits for the done signal of a pending slot of its key
\* that another goroutine installed and is still loading.
AwaitsInFlightLoad(t) ==
    LET k == tasks[t].rel IN
    /\ tasks[t].pc = "wait"
    /\ k \in DOMAIN entryMap
    /\ ~entryMap[k].done
    /\ entryMap[k].owner # t
    /\ tasks[entryMap[k].owner].rel = k
    /\ tasks[entryMap[k].owner].pc \in {"load", "close"}

\* C32 as stated: a goroutine of the prefetch phase is suspended only while
\* it waits for the done signal of a slot of its key whose load is in
\* flight.
C32_OnlyDoneSignal ==
    \A t \in DOMAIN tasks : Suspended(t) => AwaitsInFlightLoad(t)

\* C32, amended: inside populateCache a goroutine can always take its next
\* step, except at three points: in cache.get while the slot of its key,
\* installed by another goroutine that is still loading it, is pending; at
\* the send on the semaphore while all SemCap tokens are out; and, for the
\* goroutine that called populateCache, in wg.Wait while the counter is not
\* zero. The map operations, the close of the done signal, the release of
\* the token and wg.Done are never held up.
C32_SuspensionPoints ==
    ~AfterPrefetch /\ ~panicked =>
        /\ \A t \in DOMAIN tasks :
              LET me == tasks[t] IN
              /\ me.pc = "get" => ENABLED CacheLoad(t)
              /\ me.pc = "store" => ENABLED CacheLoadOrStore(t)
              /\ me.pc = "close" => ENABLED CacheClose(t)
              /\ me.pc = "ret" /\ InVisit(t) => ENABLED Release(t)
              /\ me.pc = "exit" /\ t # Main => ENABLED WorkerExit(t)
              /\ me.pc = "wait" =>
                    /\ (ENABLED CacheWait(t)) <=> entryMap[me.rel].done
                    /\ ~entryMap[me.rel].done => AwaitsInFlightLoad(t)
              /\ me.pc = "spawn" /\ InVisit(t) => ((ENABLED Spawn(t)) <=> sem < SemCap)
        /\ phase = "prefix" /\ tasks[Main].pc \in {"idle", "ret"} => ENABLED MainPrefix
        /\ phase = "roots" /\ tasks[Main].idx <= Len(rels) =>
              ((ENABLED MainSpawnRoot) <=> sem < SemCap)
        /\ \/ phase = "roots" /\ tasks[Main].idx > Len(rels)
           \/ phase = "visit2" /\ tasks[Main].pc = "exit"
           => ((ENABLED MainWait) <=> wg = 0)

\* A visitor is held up at the send on the semaphore: all SemCap tokens are
\* out, held by goroutines it started that are inside the loader.
C32_Witness ==
    /\ ~AfterPrefetch
    /\ sem = SemCap
    /\ \E t \in Visitors : tasks[t].pc = "spawn" /\ Suspended(t)
    /\ Cardinality({ u \in Workers : tasks[u].pc = "load" }) = SemCap

\* Two goroutines are in cache.get for one key: one is inside the loader,
\* the other waits for the done signal of the slot.
C32_WaitReached ==
    \E t \in Workers : AwaitsInFlightLoad(t) /\ Suspended(t)

---------------------------------------------------------------------------
(* loadDirInfo: partial results *)

\* The configuration loadDirInfo hands to configureForWalk for k: the one
\* in the parent's slot.
InheritedConfig(k) ==
    [(IF k = Root THEN RootWalkConfig ELSE entryMap[Dir(k)].info.config) EXCEPT !.ignore = FALSE]

\* C33: loadDirInfo of a directory that cannot be read returns; what it
\* returns, and what the slot and every cache.get of the key then hold, is
\* an error that contains the read error, together with an info that has no
\* subdirectories, no regular files, no build file, and the configuration
\* of the parent with ignore reset.
C33_UnreadableDirectory ==
    /\ [](\A k \in DOMAIN fs : fs[k].readErr =>
             /\ \A r \in loaded[k] :
                   /\ r.err # NoError
                   /\ \E i \in 1..Len(r.err) : r.err[i] = "readdir"
                   /\ r.info.subdirs = <<>>
                   /\ r.info.regularFiles = <<>>
                   /\ r.info.file = NoFile
                   /\ r.info.config = InheritedConfig(k)
                   /\ entryMap[k].info = r.info
                   /\ entryMap[k].err = r.err
             /\ \A g \in getReturns : g.key = k =>
                   [info |-> g.info, err |-> g.err] \in loaded[k])
    /\ [][\A k \in DOMAIN fs :
             /\ fs[k].readErr
             /\ loadCount'[k] > loadCount[k]
             /\ k = Root \/ (Dir(k) \in DOMAIN entryMap /\ entryMap[Dir(k)].done)
             => ~panicked' /\ loaded'[k] # {}]_vars

\* The unreadable directory below a directory with directives was loaded
\* and a cache.get of it returned: the info carries the parent's
\* update_only and exclude pattern.
C33_Witness ==
    \E g \in getReturns :
        /\ fs[g.key].readErr
        /\ g.err # NoError
        /\ g.info.config.updateOnly
        /\ g.info.config.excludes # <<>>
        /\ ~g.info.config.ignore
        /\ entryMap[Dir(g.key)].info.config.ignore

\* Names of the entries of k on disk that are directories (wantDir) or not,
\* and that the configuration wc does not exclude, in the order read.
KeptNames(wc, k, wantDir) ==
    LET kept == SelectSeq(fs[k].entries,
                          LAMBDA e : IF wantDir
                                     THEN e.isDir /\ ~isExcludedDir(wc, Join(k, e.name))
                                     ELSE ~e.isDir /\ ~isExcludedFile(wc, Join(k, e.name)))
    IN  [i \in 1..Len(kept) |-> kept[i].name]

\* C34: loadDirInfo of a directory whose build file does not parse returns
\* an error that contains the parse error and an info without build file,
\* whose configuration is the parent's with ignore reset and no directive
\* applied, and whose subdirs and regularFiles are the entries on disk that
\* this configuration does not exclude; the slot and every cache.get hold
\* that pair. A subdirectory is then loaded from this info without a panic:
\* its configuration is derived from the one stored for the directory.
C34_ParseFailure ==
    /\ [](\A k \in DOMAIN fs : ParseFails(k) =>
             /\ \A r \in loaded[k] :
                   /\ r.err # NoError
                   /\ ParseFailed(r.err)
                   /\ r.info.file = NoFile
                   /\ r.info.config = InheritedConfig(k)
                   /\ ~isExcludedDir(r.info.config, k) =>
                         /\ r.info.subdirs = KeptNames(InheritedConfig(k), k, TRUE)
                         /\ r.info.regularFiles = KeptNames(InheritedConfig(k), k, FALSE)
                   /\ entryMap[k].info = r.info
                   /\ entryMap[k].err = r.err
                   /\ \A c \in DOMAIN fs : c # Root /\ Dir(c) = k =>
                         \A rc \in loaded[c] :
                             rc.info.config =
                                 configureForWalk(r.info.config, c, loadBuildFile(c, ReadDir(c)))
             /\ \A g \in getReturns : g.key = k =>
                   [info |-> g.info, err |-> g.err] \in loaded[k])
    /\ [][\A c \in DOMAIN fs :
             /\ c # Root
             /\ ParseFails(Dir(c))
             /\ loadCount'[c] > loadCount[c]
             /\ Dir(c) \in DOMAIN entryMap /\ entryMap[Dir(c)].done
             => ~panicked' /\ loaded'[c] # {}]_vars

\* A directory with a malformed build file was returned with its
\* subdirectory and its build file listed, its source file being excluded
\* by the pattern of the root, and the subdirectory was loaded after it
\* without error.
C34_Witness ==
    \E g, h \in getReturns :
        /\ ParseFails(g.key)
        /\ ParseFailed(g.err)
        /\ g.info.subdirs = <<"b">>
        /\ g.info.regularFiles = <<"BUILD.bazel">>
        /\ g.info.config.updateOnly /\ ~g.info.config.ignore
        /\ h.key # Root /\ Dir(h.key) = g.key
        /\ h.err = NoError
        /\ h.info.config.updateOnly
---------------------------------------------------------------------------
(* The directory that excludes itself: contents *)

\* The directory's build file holds "# gazelle:exclude ." and the pattern
\* Configure stores for it, path.Join(rel, "."), matches the directory.
MatchesOwnPattern(d) ==
    DeclaresExcludeSelf(d) /\ Match(JoinValue(d, <<".">>), d)

---------------------------------------------------------------------------
(* Configurer: directives in file order *)

\* The directives of the file with the given key whose pattern, joined to
\* rel, is well-formed, in the order written.
ValidOf(rel, f, key) ==
    SelectSeq(DirectivesOf(f), LAMBDA x : x.key = key /\ ~BadGlobDirective(rel, x))

\* seq is base followed by the values of the directives ds, each behind the
\* elements of rel, in the order of ds.
AppendedInOrder(seq, base, rel, ds) ==
    /\ Len(seq) = Len(base) + Len(ds)
    /\ \A i \in 1..Len(base) : seq[i] = base[i]
    /\ \A i \in 1..Len(ds) : seq[Len(base) + i] = rel \o ds[i].value

\* C36: the configuration Configure publishes for a directory has, as
\* excludes (follow), the parent's excludes (follow) followed by the values
\* of the file's valid exclude (follow) directives, each joined to the
\* directory's path, in the order written; updateOnly is what the last
\* generation_mode directive of the file says, the parent's if there is
\* none; without a build file the configuration is the parent's with
\* ignore = false.
C36_FileOrder ==
    \A d \in DOMAIN built :
        LET b     == built[d]
            modes == SelectSeq(DirectivesOf(b.file), LAMBDA x : x.key = "generation_mode")
        IN  /\ AppendedInOrder(b.value.excludes, b.parent.excludes, d,
                               ValidOf(d, b.file, "exclude"))
            /\ AppendedInOrder(b.value.follow, b.parent.follow, d,
                               ValidOf(d, b.file, "follow"))
            /\ b.value.updateOnly =
                  IF modes = <<>> THEN b.parent.updateOnly
                  ELSE TrimSpace(modes[Len(modes)].value) = <<"update_only">>
            /\ b.file.kind = "nil" => b.value = [b.parent EXCEPT !.ignore = FALSE]

\* Below a root that sets update_only, excludes s and ends on
\* create_and_update, a is configured from a file that starts with
\* create_and_update and ends with update_only, and a/b has no build
\* file.
C36_Witness ==
    /\ DOMAIN built = {Root, <<"a">>, <<"a", "b">>}
    /\ built[Root].value.excludes = << <<"s">> >>
    /\ ~built[Root].value.updateOnly
    /\ built[<<"a">>].value.excludes = << <<"s">>, <<"a", "t">>, <<"a", "s">> >>
    /\ built[<<"a">>].value.follow = << <<"a", "y">>, <<"a", "z">> >>
    /\ built[<<"a">>].value.updateOnly
    /\ built[<<"a", "b">>].file.kind = "nil"
    /\ built[<<"a", "b">>].value = [built[<<"a">>].value EXCEPT !.ignore = FALSE]
---------------------------------------------------------------------------
(* Directory cache: liveness *)

\* Goroutine t is inside cache.get.
InGet(t) == tasks[t].pc \in {"get", "store", "wait", "load", "close"}

\* C37: under fair scheduling, with loader calls that return, every call
\* of cache.get returns, and every slot installed in the map is resolved
\* in the end, unless a loader call panicked because its parent directory
\* was not loaded before it.
C37_GetReturns ==
    /\ \A t \in Callers : InGet(t) ~> (tasks[t].pc = "ret" \/ panicked)
    /\ \A k \in CacheKeys :
          (k \in DOMAIN entryMap /\ ~entryMap[k].done)
             ~> ((k \in DOMAIN entryMap /\ entryMap[k].done) \/ panicked)

\* No loader panicked; the root is loaded, and the two goroutines that
\* called get for a, for which the loader ran once, have both returned.
C37_Witness ==
    /\ ~panicked
    /\ DOMAIN entryMap = {Root, <<"a">>}
    /\ loadCount[<<"a">>] = 1
    /\ Cardinality({ t \in Callers : tasks[t].rel = <<"a">> /\ tasks[t].pc = "ret" }) = 2
    /\ \A k \in DOMAIN entryMap : entryMap[k].done
---------------------------------------------------------------------------
(* Parallel prefetcher: load errors *)

\* The goroutine whose visit started worker t: the visitor of the parent
\* directory, or main for the goroutines populateCache(rels) starts itself.
StartedBy(t) ==
    IF variant = 2
    THEN (IF Len(t[2]) = 1 THEN Main ELSE Worker(1, Dir(t[2])))
    ELSE (IF t[2] = rels[t[1]] THEN Main ELSE Worker(t[1], Dir(t[2])))

\* The load of the directory has returned an error.
LoadFailed(p) == p \in DOMAIN entryMap /\ entryMap[p].done /\ entryMap[p].err # NoError

\* p is a directory above k.
StrictlyAbove(p, k) == IsPrefix(p, k) /\ p # k

\* C38: the step a visitor takes after cache.get returned an error gives
\* the token back, starts no goroutine and ends the visit; every goroutine
\* was started by a visit whose own load had returned no error; and while
\* populateCache runs, a directory beneath one whose load failed is loaded
\* only if populateCache(rels) was asked for a directory beneath the failed
\* one: the loaded directory is then that requested directory, one above it
\* or one beneath it.
C38_ErrorStopsDescent ==
    /\ [](/\ \A t \in Workers :
                StartedBy(t) # Main \/ (variant = 2 /\ ~AfterPrefetch) =>
                    /\ StartedBy(t) \in DOMAIN tasks
                    /\ tasks[StartedBy(t)].err = NoError
                    /\ tasks[StartedBy(t)].pc \in {"spawn", "exit", "exited"}
          /\ \A k \in Prefetched, p \in DOMAIN fs :
                StrictlyAbove(p, k) /\ LoadFailed(p) =>
                    /\ variant = 1
                    /\ \E r \in RelSet :
                          StrictlyAbove(p, r) /\ (IsPrefix(r, k) \/ IsPrefix(k, r)))
    /\ [][\A t \in DOMAIN tasks :
             /\ InVisit(t)
             /\ tasks[t].pc = "ret"
             /\ tasks[t].err # NoError
             /\ tasks'[t] # tasks[t]
             => /\ sem' = sem - 1
                /\ wg' = wg
                /\ DOMAIN tasks' = DOMAIN tasks
                /\ tasks'[t].pc = "exit"]_vars

\* populateCache has returned: the goroutine that visited a got the parse
\* error of a's build file together with the subdirectory b, and ended;
\* a/b was not loaded.
C38_Witness ==
    /\ phase = "walk"
    /\ \E t \in Workers :
          /\ tasks[t].rel = <<"a">>
          /\ tasks[t].pc = "exited"
          /\ ParseFailed(tasks[t].err)
          /\ tasks[t].info.subdirs = <<"b">>
    /\ <<"a", "b">> \notin DOMAIN entryMap
    /\ sem = 0
====
